---------------------------- MODULE Spec2Model ----------------------------
(***************************************************************************)
(* Model of scripts/generate-charts.py: the argument loop, the report      *)
(* metadata, the loading of raw JSON test results, the three flat tables   *)
(* built from them (summary, time-series, per-container), the order in     *)
(* which main() builds tables and writes output artifacts, and the rows of *)
(* the summary table and of the per-container report.                      *)
(*                                                                         *)
(* Conventions.  A JSON object (Python dict) is a TLA+ function with a set *)
(* of strings as domain, a JSON array a sequence.  Numbers of the          *)
(* documents are integers; a value the code obtains by a true division is  *)
(* an exact rational [n |-> .., d |-> ..] in lowest terms (floating-point  *)
(* rounding error is not modelled).  File names and glob patterns are      *)
(* sequences of one-character strings.                                     *)
(***************************************************************************)
EXTENDS Integers, Sequences, FiniteSets, TLC

VARIABLES
    argv,           \* sys.argv[1:], a sequence of tokens
    dir_exists,     \* results_dir.exists()
    raw_exists,     \* (results_dir / 'raw').exists()
    raw_files,      \* the files of raw/: name -> [kind, doc]; kind is "absent",
                    \* "ok" (json.load returns doc) or "bad" (json.load
                    \* raises JSONDecodeError)
    pc,             \* position of main()
    FILE_FILTER,    \* global FILE_FILTER (a pattern; <<>> is the empty string)
    OUTPUT_SUFFIX,  \* global OUTPUT_SUFFIX
    timestamp,      \* local timestamp of main()
    opened,         \* the raw files open() was called on, in order
    warnings,       \* the files a "Warning: Could not parse" was printed for
    errors,         \* the usage and "Error:" messages printed, in order
    results,        \* list of loaded documents
    df,             \* the summary table (list of rows)
    ts_df,          \* the time-series table
    container_df,   \* the per-container table
    built,          \* the tables that have been built so far
    charts_dir,     \* TRUE once results_dir/charts has been created
    outputs,        \* the output artifacts written so far, in order
    exit_status,    \* -1 while running, else the status the process ended with
    notices,        \* the warnings and "skipping" notices printed, in order
    report_files,   \* the report-*.json files of results_dir: name -> [kind, doc];
                    \* kind is "absent", "ok", "bad" (JSONDecodeError) or
                    \* "unreadable" (open raises IOError)
    report_opened,  \* the report files open() was called on, in order
    report_name,    \* local report_name of main()
    summary_html,   \* the table rows written to summary.html
    container_report, \* the table rows written to per-container-report.html
    examined        \* the indices of args the argument loop has read, in order

vars == <<argv, dir_exists, raw_exists, raw_files, pc, FILE_FILTER,
          OUTPUT_SUFFIX, timestamp,
          opened, warnings, errors, results, df, ts_df, container_df, built,
          charts_dir, outputs, exit_status, notices, report_files, report_opened,
          report_name, summary_html, container_report, examined>>

-----------------------------------------------------------------------------
(* Bounds of the model *)

\* longest list of documents whose rows are sorted by target throughput
MaxDocs == 3

\* longest list of documents with time-series and per-container blocks
MaxSeriesDocs == 2

\* longest list of command-line arguments after the results directory
MaxArgs == 4

-----------------------------------------------------------------------------
(* Python / pandas primitives *)

\* the empty dict {}
EmptyDict == [k \in {} |-> 0]

\* dict.get(k, default)
Get(d, k, default) == IF k \in DOMAIN d THEN d[k] ELSE default

\* r.get(a, {}).get(b, {}).get(c, 0)
Get3(r, a, b, c) == Get(Get(Get(r, a, EmptyDict), b, EmptyDict), c, 0)

\* the lookup with a default of 1 in place of 0
Get2DefaultOne(r, a, b) == Get(Get(r, a, EmptyDict), b, 1)

\* r.get(a, {}).get(b, 0)
Get2(r, a, b) == Get(Get(r, a, EmptyDict), b, 0)

Abs(x) == IF x < 0 THEN -x ELSE x

RECURSIVE GCD(_, _)
GCD(a, b) == IF b = 0 THEN Abs(a) ELSE GCD(b, a % b)

\* the rational n/d (d > 0) in lowest terms
Rat(n, d) == LET g == GCD(n, d) IN [n |-> n \div g, d |-> d \div g]

RatZero == [n |-> 0, d |-> 1]

RatMul(q, k) == Rat(q.n * k, q.d)

RatDiv(q, k) == Rat(q.n, q.d * k)

RatEq(p, q) == p.n * q.d = q.n * p.d

\* nearest integer to n/d (d > 0, n >= 0), ties to the even neighbour:
\* what numpy's rint does inside Series.round
RoundHalfEven(n, d) ==
    LET q == n \div d
        r == n % d
    IN  IF 2 * r < d THEN q
        ELSE IF 2 * r > d THEN q + 1
        ELSE IF q % 2 = 0 THEN q ELSE q + 1

\* Series.round(1)
Round1(q) == Rat(RoundHalfEven(q.n * 10, q.d), 10)

-----------------------------------------------------------------------------
(* results_to_dataframe *)

\* the columns of a summary row, as results_to_dataframe creates them
SummaryColumns ==
    {"load_name", "mb_per_sec", "mb_per_sec_actual", "gb_per_day", "bytes_per_sec",
     "p50_ms", "p90_ms", "p99_ms", "avg_latency_ms",
     "cpu_cores", "cpu_millicores", "max_cpu_cores", "max_cpu_millicores",
     "min_cpu_cores", "min_cpu_millicores",
     "avg_memory_gb", "memory_gb", "max_memory_gb", "min_memory_gb",
     "sustained_cpu", "sustained_cpu_millicores", "peak_memory_gb",
     "recommended_cpu", "recommended_cpu_millicores", "recommended_memory_gb",
     "spans_per_sec", "error_rate", "dropped_spans", "discarded_spans",
     "avg_spans_returned", "actual_qps", "target_qps"}

\* bytes_per_sec / (1024 * 1024) if bytes_per_sec else 0
MbPerSecActual(bytes_per_sec) ==
    IF bytes_per_sec # 0 THEN Rat(bytes_per_sec, 1024 * 1024) ELSE RatZero

\* the conversion with a gigabyte of 1000 megabytes
GbPerDayDecimal(mb_per_sec_actual) ==
    IF mb_per_sec_actual.n # 0
    THEN RatDiv(RatMul(mb_per_sec_actual, 86400), 1000)
    ELSE RatZero

\* mb_per_sec_actual * 86400 / 1024 if mb_per_sec_actual else 0
GbPerDay(mb_per_sec_actual) ==
    IF mb_per_sec_actual.n # 0
    THEN RatDiv(RatMul(mb_per_sec_actual, 86400), 1024)
    ELSE RatZero

\* the body of the loop of results_to_dataframe: the row of one document
SummaryRow(r) ==
    LET bytes_per_sec == Get3(r, "metrics", "throughput", "bytes_per_second")
        mb_per_sec_actual == MbPerSecActual(bytes_per_sec)
        resources == Get(Get(r, "metrics", EmptyDict), "resources", EmptyDict)
        cpu_cores == Get(resources, "avg_cpu_cores", 0)
        max_cpu_cores == Get(resources, "max_cpu_cores", 0)
        min_cpu_cores == Get(resources, "min_cpu_cores", 0)
        sustained_cpu_cores == Get(resources, "sustained_cpu_cores", 0)
        recommended_cpu_cores ==
            Get3(r, "metrics", "resource_recommendations", "cpu_cores")
        avg_memory_gb == Get(resources, "avg_memory_gb", 0)
        max_memory_gb == Get(resources, "max_memory_gb", 0)
        min_memory_gb == Get(resources, "min_memory_gb", 0)
        gb_per_day == GbPerDay(mb_per_sec_actual)
        actual_qps == Get3(r, "metrics", "query_results", "actual_qps")
        target_qps == Get2(r, "config", "target_qps")
    IN  [load_name |-> Get(r, "load_name", "unknown"),
         mb_per_sec |-> Get2(r, "config", "mb_per_sec"),
         mb_per_sec_actual |-> mb_per_sec_actual,
         gb_per_day |-> gb_per_day,
         bytes_per_sec |-> bytes_per_sec,
         p50_ms |-> Get3(r, "metrics", "query_latencies", "p50_seconds") * 1000,
         p90_ms |-> Get3(r, "metrics", "query_latencies", "p90_seconds") * 1000,
         p99_ms |-> Get3(r, "metrics", "query_latencies", "p99_seconds") * 1000,
         avg_latency_ms |-> Get3(r, "metrics", "query_latencies", "avg_seconds") * 1000,
         cpu_cores |-> cpu_cores,
         cpu_millicores |-> cpu_cores * 1000,
         max_cpu_cores |-> max_cpu_cores,
         max_cpu_millicores |-> max_cpu_cores * 1000,
         min_cpu_cores |-> min_cpu_cores,
         min_cpu_millicores |-> min_cpu_cores * 1000,
         avg_memory_gb |-> avg_memory_gb,
         memory_gb |-> max_memory_gb,
         max_memory_gb |-> max_memory_gb,
         min_memory_gb |-> min_memory_gb,
         sustained_cpu |-> sustained_cpu_cores,
         sustained_cpu_millicores |-> sustained_cpu_cores * 1000,
         peak_memory_gb |-> Get3(r, "metrics", "resources", "peak_memory_gb"),
         recommended_cpu |-> recommended_cpu_cores,
         recommended_cpu_millicores |-> recommended_cpu_cores * 1000,
         recommended_memory_gb |->
             Get3(r, "metrics", "resource_recommendations", "memory_gb"),
         spans_per_sec |-> Get3(r, "metrics", "throughput", "spans_per_second"),
         error_rate |-> Get3(r, "metrics", "errors", "error_rate_percent"),
         dropped_spans |-> Get3(r, "metrics", "errors", "dropped_spans_per_second"),
         discarded_spans |->
             Get3(r, "metrics", "errors", "discarded_spans_per_second"),
         avg_spans_returned |->
             Get3(r, "metrics", "query_results", "avg_spans_returned"),
         actual_qps |-> actual_qps,
         target_qps |-> target_qps]

\* rows = [row(r) for r in results]
SummaryRows(rs) == [i \in 1..Len(rs) |-> SummaryRow(rs[i])]

\* the rows taken in the order perm
Reorder(rows, perm) == [i \in 1..Len(rows) |-> rows[perm[i]]]

\* the orders of the rows in which column col ascends
AscendingOrders(rows, col) ==
    {perm \in Permutations(1..Len(rows)) :
        \A i, j \in 1..Len(rows) :
            i < j => rows[perm[i]][col] <= rows[perm[j]][col]}

\* the rows left as they are: the sort_values call forgotten
SortValuesForgotten(rows, col) == {rows}

\* df.sort_values(col).reset_index(drop=True) on a single column: pandas sorts
\* with kind='quicksort', which it documents as not stable, so rows equal in
\* col come out in an order the numpy build decides.  The set of the results
\* the call can return.
SortValuesQuick(rows, col) ==
    {Reorder(rows, perm) : perm \in AscendingOrders(rows, col)}

\* the rows returned in the order of the documents
SummaryRowsUnsorted(rs) == {SummaryRows(rs)}

\* the tables results_to_dataframe can return for the documents rs
results_to_dataframe(rs) == SortValuesQuick(SummaryRows(rs), "mb_per_sec")

-----------------------------------------------------------------------------
(* Ordering of strings and the stable multi-column sort *)

\* the strings the documents of the model use as names, in the order Python
\* compares str values (by code point)
StrOrder ==
    <<"distributor", "ingester", "large", "pod-0", "pod-1", "small", "unknown">>

\* the position of a name in that order: s < t iff StrRank(s) < StrRank(t)
StrRank(s) == CHOOSE i \in 1..Len(StrOrder) : StrOrder[i] = s

\* a < b for two tuples of integers of the same length
LexLess(a, b) ==
    \E k \in 1..Len(a) : a[k] < b[k] /\ \A m \in 1..(k - 1) : a[m] = b[m]

\* the place row i takes in a sort that puts rows of equal keys in the reverse
\* of their original order
StablePosReversed(keys, i) ==
    1 + Cardinality({j \in 1..Len(keys) :
                        LexLess(keys[j], keys[i]) \/ (keys[j] = keys[i] /\ j > i)})

\* the place row i takes when the rows are ordered by keys and, among equal
\* keys, by their original position
StablePos(keys, i) ==
    1 + Cardinality({j \in 1..Len(keys) :
                        LexLess(keys[j], keys[i]) \/ (keys[j] = keys[i] /\ j < i)})

\* df.sort_values([...]).reset_index(drop=True) on several columns: pandas
\* sorts these with lexsort_indexer, which keeps equal keys in input order
SortValuesLex(rows, keys) ==
    [p \in 1..Len(rows) |-> rows[CHOOSE i \in 1..Len(rows) : StablePos(keys, i) = p]]

\* sorted(S) for a set of integers
RECURSIVE SortedList(_)
SortedList(S) ==
    IF S = {} THEN <<>>
    ELSE LET m == CHOOSE x \in S : \A y \in S : x <= y
         IN  <<m>> \o SortedList(S \ {m})

\* min of a non-empty set of integers
Min(S) == CHOOSE x \in S : \A y \in S : x <= y

\* ((ts - min_ts) / 60).astype(int) + 1
Minute(ts, min_ts) == ((ts - min_ts) \div 60) + 1

-----------------------------------------------------------------------------
(* extract_timeseries_data *)

\* {item['timestamp']: item['value'] for item in series}: a later item of the
\* list replaces an earlier one with the same timestamp
SeriesDict(series) ==
    [ts \in {series[i].timestamp : i \in 1..Len(series)} |->
        LET last == CHOOSE i \in 1..Len(series) :
                        /\ series[i].timestamp = ts
                        /\ \A j \in (i + 1)..Len(series) : series[j].timestamp # ts
        IN  series[last].value]

\* the dict of a metric whose i-th value is put at the i-th CPU timestamp: the
\* series joined by position, where the code joins them by timestamp
MetricDictByPosition(timeseries, metric) ==
    LET cpu == Get(timeseries, "cpu_cores", <<>>)
        series == Get(timeseries, metric, <<>>)
    IN  SeriesDict([i \in 1..Min({Len(cpu), Len(series)}) |->
                       [timestamp |-> cpu[i].timestamp, value |-> series[i].value]])

\* the dict of one metric of the timeseries block
MetricDict(timeseries, metric) == SeriesDict(Get(timeseries, metric, <<>>))

\* not timeseries or not timeseries.get('cpu_cores')
NoTimeseries(r) ==
    LET timeseries == Get(r, "timeseries", EmptyDict)
    IN  \/ DOMAIN timeseries = {}
        \/ Get(timeseries, "cpu_cores", <<>>) = <<>>

\* the row appended for timestamp ts of document r (the datetime column, a
\* rendering of ts, is left out)
TimeseriesRow(r, ts) ==
    LET timeseries == Get(r, "timeseries", EmptyDict)
        cpu_val == Get(MetricDict(timeseries, "cpu_cores"), ts, 0)
    IN  [load_name |-> Get(r, "load_name", "unknown"),
         timestamp |-> ts,
         cpu_cores |-> cpu_val,
         cpu_millicores |-> cpu_val * 1000,
         memory_gb |-> Get(MetricDict(timeseries, "memory_gb"), ts, 0),
         spans_per_sec |-> Get(MetricDict(timeseries, "spans_per_second"), ts, 0),
         bytes_per_sec |-> Get(MetricDict(timeseries, "bytes_per_second"), ts, 0),
         p50_ms |-> Get(MetricDict(timeseries, "p50_latency_seconds"), ts, 0) * 1000,
         p90_ms |-> Get(MetricDict(timeseries, "p90_latency_seconds"), ts, 0) * 1000,
         p99_ms |-> Get(MetricDict(timeseries, "p99_latency_seconds"), ts, 0) * 1000,
         query_failures |->
             Get(MetricDict(timeseries, "query_failures_per_second"), ts, 0),
         dropped_spans |->
             Get(MetricDict(timeseries, "dropped_spans_per_second"), ts, 0),
         discarded_spans |->
             Get(MetricDict(timeseries, "discarded_spans_per_second"), ts, 0),
         avg_spans_returned |->
             Get(MetricDict(timeseries, "avg_spans_returned"), ts, 0),
         qps |-> Get(MetricDict(timeseries, "qps"), ts, 0),
         target_qps |-> Get2(r, "config", "target_qps")]

\* the rows of a document with the timestamps of all its series as the axis,
\* where the code takes those of the CPU series
TimeseriesRowsOfAnyAxis(r) ==
    LET timeseries == Get(r, "timeseries", EmptyDict)
        axis == SortedList(UNION {DOMAIN MetricDict(timeseries, m) :
                                     m \in DOMAIN timeseries})
    IN  [i \in 1..Len(axis) |-> TimeseriesRow(r, axis[i])]

\* the rows one document contributes: none when it is skipped, else one per
\* key of cpu_data, in ascending order
TimeseriesRowsOf(r) ==
    IF NoTimeseries(r) THEN <<>>
    ELSE LET axis == SortedList(DOMAIN MetricDict(r.timeseries, "cpu_cores"))
         IN  [i \in 1..Len(axis) |-> TimeseriesRow(r, axis[i])]

\* the list rows after the loop over results
RECURSIVE TimeseriesRows(_)
TimeseriesRows(rs) ==
    IF rs = <<>> THEN <<>>
    ELSE TimeseriesRowsOf(Head(rs)) \o TimeseriesRows(Tail(rs))

\* the minute column anchored to the least timestamp of the whole table
AddMinuteGlobal(rows) ==
    [i \in 1..Len(rows) |->
        LET min_ts == Min({rows[j].timestamp : j \in 1..Len(rows)})
        IN  [c \in DOMAIN rows[i] \cup {"minute"} |->
                IF c = "minute" THEN Minute(rows[i].timestamp, min_ts)
                ELSE rows[i][c]]]

\* the minute column: per load_name, anchored to the least timestamp of the load
AddMinutePerLoad(rows) ==
    [i \in 1..Len(rows) |->
        LET min_ts == Min({rows[j].timestamp :
                             j \in {k \in 1..Len(rows) :
                                       rows[k].load_name = rows[i].load_name}})
        IN  [c \in DOMAIN rows[i] \cup {"minute"} |->
                IF c = "minute" THEN Minute(rows[i].timestamp, min_ts)
                ELSE rows[i][c]]]

\* extract_timeseries_data(results); <<>> is the empty DataFrame
extract_timeseries_data(rs) ==
    LET rows == TimeseriesRows(rs)
    IN  IF rows = <<>> THEN <<>>
        ELSE AddMinutePerLoad(
                 SortValuesLex(rows,
                     [i \in 1..Len(rows) |->
                         <<StrRank(rows[i].load_name), rows[i].timestamp>>]))

-----------------------------------------------------------------------------
(* extract_per_container_data *)

\* the samples of a series of the per_container block, in the order the two
\* nested loops visit them: (container, pod, timestamp, value)
RECURSIVE ContainerSamples(_)
ContainerSamples(series) ==
    IF series = <<>> THEN <<>>
    ELSE LET container_info == Head(series)
             values == Get(container_info, "values", <<>>)
         IN  [i \in 1..Len(values) |->
                 [container |-> Get(container_info, "container", "unknown"),
                  pod |-> Get(container_info, "pod", "unknown"),
                  timestamp |-> Get(values[i], "timestamp", 0),
                  value |-> Get(values[i], "value", 0)]]
             \o ContainerSamples(Tail(series))

\* the key (load_name, container_name, pod_name, ts) of a row of data_dict
KeyOf(row) == <<row.load_name, row.container, row.pod, row.timestamp>>

\* data_dict is a list of rows in insertion order, at most one per key
HasKey(data_dict, key) == \E i \in 1..Len(data_dict) : KeyOf(data_dict[i]) = key

\* the entry created for a key that is not in data_dict yet
NewEntry(load_name, s) ==
    [load_name |-> load_name, container |-> s.container, pod |-> s.pod,
     timestamp |-> s.timestamp, cpu_cores |-> 0, cpu_millicores |-> 0,
     memory_gb |-> 0]

\* if key not in data_dict: data_dict[key] = {...}
EnsureKey(data_dict, load_name, s) ==
    IF HasKey(data_dict, <<load_name, s.container, s.pod, s.timestamp>>)
    THEN data_dict
    ELSE Append(data_dict, NewEntry(load_name, s))

\* the update of cpu_cores without that of cpu_millicores
SetCpuOnly(row, cpu_val) == [row EXCEPT !.cpu_cores = cpu_val]

\* data_dict[key]['cpu_cores'] = cpu_val
\* data_dict[key]['cpu_millicores'] = cpu_val * 1000
SetCpu(row, cpu_val) ==
    [row EXCEPT !.cpu_cores = cpu_val, !.cpu_millicores = cpu_val * 1000]

\* the memory update that stores a fresh entry, losing the CPU value of the key
SetMemoryFresh(row, mem_val) ==
    [row EXCEPT !.memory_gb = mem_val, !.cpu_cores = 0, !.cpu_millicores = 0]

\* data_dict[key]['memory_gb'] = mem_val
SetMemory(row, mem_val) == [row EXCEPT !.memory_gb = mem_val]

\* one iteration of the inner loop over a CPU series
CpuSample(data_dict, load_name, s) ==
    LET d == EnsureKey(data_dict, load_name, s)
    IN  [i \in 1..Len(d) |->
            IF KeyOf(d[i]) = <<load_name, s.container, s.pod, s.timestamp>>
            THEN SetCpu(d[i], s.value) ELSE d[i]]

\* an iteration of the memory loop that updates the entry of a key the CPU loop
\* made and makes none itself
MemorySampleExisting(data_dict, load_name, s) ==
    [i \in 1..Len(data_dict) |->
        IF KeyOf(data_dict[i]) = <<load_name, s.container, s.pod, s.timestamp>>
        THEN SetMemory(data_dict[i], s.value) ELSE data_dict[i]]

\* one iteration of the inner loop over a memory series
MemorySample(data_dict, load_name, s) ==
    LET d == EnsureKey(data_dict, load_name, s)
    IN  [i \in 1..Len(d) |->
            IF KeyOf(d[i]) = <<load_name, s.container, s.pod, s.timestamp>>
            THEN SetMemory(d[i], s.value) ELSE d[i]]

RECURSIVE CpuLoop(_, _, _)
CpuLoop(data_dict, load_name, samples) ==
    IF samples = <<>> THEN data_dict
    ELSE CpuLoop(CpuSample(data_dict, load_name, Head(samples)), load_name,
                 Tail(samples))

RECURSIVE MemoryLoop(_, _, _)
MemoryLoop(data_dict, load_name, samples) ==
    IF samples = <<>> THEN data_dict
    ELSE MemoryLoop(MemorySample(data_dict, load_name, Head(samples)), load_name,
                    Tail(samples))

\* data_dict.values() of one document (the datetime column is left out)
ContainerRowsOf(r) ==
    LET load_name == Get(r, "load_name", "unknown")
        per_container == Get(r, "per_container", EmptyDict)
    IN  IF DOMAIN per_container = {} THEN <<>>
        ELSE MemoryLoop(
                 CpuLoop(<<>>, load_name,
                         ContainerSamples(Get(per_container, "cpu_cores", <<>>))),
                 load_name,
                 ContainerSamples(Get(per_container, "memory_gb", <<>>)))

RECURSIVE ContainerRows(_)
ContainerRows(rs) ==
    IF rs = <<>> THEN <<>>
    ELSE ContainerRowsOf(Head(rs)) \o ContainerRows(Tail(rs))

\* the minute column per (load_name, container, pod): every pod with an anchor
\* of its own
AddMinutePerPod(rows) ==
    [i \in 1..Len(rows) |->
        LET min_ts == Min({rows[j].timestamp :
                             j \in {k \in 1..Len(rows) :
                                       /\ rows[k].load_name = rows[i].load_name
                                       /\ rows[k].container = rows[i].container
                                       /\ rows[k].pod = rows[i].pod}})
        IN  [c \in DOMAIN rows[i] \cup {"minute"} |->
                IF c = "minute" THEN Minute(rows[i].timestamp, min_ts)
                ELSE rows[i][c]]]

\* the minute column: per (load_name, container)
AddMinutePerContainer(rows) ==
    [i \in 1..Len(rows) |->
        LET min_ts == Min({rows[j].timestamp :
                             j \in {k \in 1..Len(rows) :
                                       /\ rows[k].load_name = rows[i].load_name
                                       /\ rows[k].container = rows[i].container}})
        IN  [c \in DOMAIN rows[i] \cup {"minute"} |->
                IF c = "minute" THEN Minute(rows[i].timestamp, min_ts)
                ELSE rows[i][c]]]

\* extract_per_container_data(results)
extract_per_container_data(rs) ==
    LET rows == ContainerRows(rs)
    IN  IF rows = <<>> THEN <<>>
        ELSE AddMinutePerContainer(
                 SortValuesLex(rows,
                     [i \in 1..Len(rows) |->
                         <<StrRank(rows[i].load_name), StrRank(rows[i].container),
                           rows[i].timestamp>>]))

-----------------------------------------------------------------------------
(* generate_summary_table: the derived columns *)

\* the efficiency without the .round(1)
EfficiencyUnrounded(row) ==
    IF row.mb_per_sec > 0
    THEN RatMul(RatDiv(row.mb_per_sec_actual, row.mb_per_sec), 100)
    ELSE RatZero

\* (row['mb_per_sec_actual'] / row['mb_per_sec'] * 100) if row['mb_per_sec'] > 0
\* else 0, then .round(1)
Efficiency(row) ==
    IF row.mb_per_sec > 0
    THEN Round1(RatMul(RatDiv(row.mb_per_sec_actual, row.mb_per_sec), 100))
    ELSE RatZero

\* (row['actual_qps'] / row['target_qps'] * 100) if row['target_qps'] > 0 else 0,
\* then .round(1)
QpsEfficiency(row) ==
    IF row.target_qps > 0
    THEN Round1(Rat(row.actual_qps * 100, row.target_qps))
    ELSE RatZero

\* df['efficiency'] = ...; df['qps_efficiency'] = ...  (df is changed in place)
AddEfficiency(rows) ==
    [i \in 1..Len(rows) |->
        [c \in DOMAIN rows[i] \cup {"efficiency", "qps_efficiency"} |->
            IF c = "efficiency" THEN Efficiency(rows[i])
            ELSE IF c = "qps_efficiency" THEN QpsEfficiency(rows[i])
            ELSE rows[i][c]]]

\* 'metric-good' if x >= 90 else ('metric-warn' if x >= 70 else 'metric-bad')
MetricClass(q) ==
    IF q.n >= 90 * q.d THEN "metric-good"
    ELSE IF q.n >= 70 * q.d THEN "metric-warn"
    ELSE "metric-bad"

\* the class computed from qps_efficiency whatever the target
QpsEffClassAlways(row) == MetricClass(row.qps_efficiency)

\* qps_eff_class: '' unless row['target_qps'] > 0
QpsEffClass(row) ==
    IF row.target_qps > 0 THEN MetricClass(row.qps_efficiency) ELSE ""

\* target_qps_str: the target, or 'N/A' unless row['target_qps'] > 0
TargetQpsStr(row) == IF row.target_qps > 0 THEN row.target_qps ELSE "N/A"

\* the <tr> of a row of df: the cells and classes that depend on the targets
\* and the efficiencies (the cell of efficiency shows the rounded value with
\* one decimal and a percent sign; qps_efficiency is shown in no cell)
SummaryTr(row) ==
    [load_name |-> row.load_name,
     mb_per_sec |-> row.mb_per_sec,
     efficiency |-> row.efficiency,
     eff_class |-> MetricClass(row.efficiency),
     target_qps_str |-> TargetQpsStr(row),
     actual_qps |-> row.actual_qps,
     qps_eff_class |-> QpsEffClass(row)]

\* the rows of <tbody> in summary.html
SummaryHtml(table) == [i \in 1..Len(table) |-> SummaryTr(table[i])]

-----------------------------------------------------------------------------
(* Strings: the characters of the strings the model uses *)

Spelling ==
    [s \in {"", "results", "20251126", "-ingest", "--filter", "--output-suffix",
            "--verbose", "*-i.json", "*-x.json", "*.json",
            "a-i.json", "b-q.json", "c-i.json", "d-q.json", "n.txt",
            "report-*.json", "report-1.json", "report-2.json",
            "prod/eu", "prod", "/eu", "2025-11-26T10:00", "2025-11-26",
            "Report ", "Report 2025-11-26", "Tempo Performance Test"} |->
        CASE s = "" -> <<>>
          [] s = "report-*.json" ->
                <<"r", "e", "p", "o", "r", "t", "-", "*", ".", "j", "s", "o", "n">>
          [] s = "report-1.json" ->
                <<"r", "e", "p", "o", "r", "t", "-", "1", ".", "j", "s", "o", "n">>
          [] s = "report-2.json" ->
                <<"r", "e", "p", "o", "r", "t", "-", "2", ".", "j", "s", "o", "n">>
          [] s = "prod/eu" -> <<"p", "r", "o", "d", "/", "e", "u">>
          [] s = "prod" -> <<"p", "r", "o", "d">>
          [] s = "/eu" -> <<"/", "e", "u">>
          [] s = "2025-11-26T10:00" ->
                <<"2", "0", "2", "5", "-", "1", "1", "-", "2", "6", "T",
                  "1", "0", ":", "0", "0">>
          [] s = "2025-11-26" ->
                <<"2", "0", "2", "5", "-", "1", "1", "-", "2", "6">>
          [] s = "Report " -> <<"R", "e", "p", "o", "r", "t", " ">>
          [] s = "Report 2025-11-26" ->
                <<"R", "e", "p", "o", "r", "t", " ",
                  "2", "0", "2", "5", "-", "1", "1", "-", "2", "6">>
          [] s = "Tempo Performance Test" ->
                <<"T", "e", "m", "p", "o", " ", "P", "e", "r", "f", "o", "r", "m",
                  "a", "n", "c", "e", " ", "T", "e", "s", "t">>
          [] s = "results" -> <<"r", "e", "s", "u", "l", "t", "s">>
          [] s = "20251126" -> <<"2", "0", "2", "5", "1", "1", "2", "6">>
          [] s = "-ingest" -> <<"-", "i", "n", "g", "e", "s", "t">>
          [] s = "--filter" -> <<"-", "-", "f", "i", "l", "t", "e", "r">>
          [] s = "--output-suffix" ->
                <<"-", "-", "o", "u", "t", "p", "u", "t", "-",
                  "s", "u", "f", "f", "i", "x">>
          [] s = "--verbose" -> <<"-", "-", "v", "e", "r", "b", "o", "s", "e">>
          [] s = "*-i.json" -> <<"*", "-", "i", ".", "j", "s", "o", "n">>
          [] s = "*-x.json" -> <<"*", "-", "x", ".", "j", "s", "o", "n">>
          [] s = "*.json" -> <<"*", ".", "j", "s", "o", "n">>
          [] s = "a-i.json" -> <<"a", "-", "i", ".", "j", "s", "o", "n">>
          [] s = "b-q.json" -> <<"b", "-", "q", ".", "j", "s", "o", "n">>
          [] s = "c-i.json" -> <<"c", "-", "i", ".", "j", "s", "o", "n">>
          [] s = "d-q.json" -> <<"d", "-", "q", ".", "j", "s", "o", "n">>
          [] s = "n.txt" -> <<"n", ".", "t", "x", "t">>]

\* s.startswith('--')
StartsWithDashes(s) ==
    LET c == Spelling[s] IN Len(c) >= 2 /\ c[1] = "-" /\ c[2] = "-"

\* fnmatch on character sequences: '*' matches any run of characters, '?' any
\* one character, every other character itself
RECURSIVE GlobMatch(_, _)
GlobMatch(name, pat) ==
    IF pat = <<>> THEN name = <<>>
    ELSE IF Head(pat) = "*"
         THEN \/ GlobMatch(name, Tail(pat))
              \/ (name # <<>> /\ GlobMatch(Tail(name), pat))
         ELSE /\ name # <<>>
              /\ (Head(pat) = "?" \/ Head(pat) = Head(name))
              /\ GlobMatch(Tail(name), Tail(pat))

\* fnmatch.fnmatch(name, pattern)
fnmatch(name, pattern) == GlobMatch(Spelling[name], Spelling[pattern])

-----------------------------------------------------------------------------
(* main: argument parsing *)

\* datetime.now().strftime("%Y%m%d-%H%M%S")
NowTimestamp == "now"

\* the while loop over args = sys.argv[2:]; i is the 1-based index
\* the loop going on with i + 1 after an option with a value, so that the
\* value is read again as an argument of its own
RECURSIVE ParseArgsNoSkip(_, _, _)
ParseArgsNoSkip(args, i, st) ==
    IF i > Len(args) THEN st
    ELSE IF args[i] = "--filter" /\ i + 1 <= Len(args)
         THEN ParseArgsNoSkip(args, i + 1,
                              [st EXCEPT !.FILE_FILTER = args[i + 1],
                                         !.examined = @ \o <<i, i + 1>>])
    ELSE IF args[i] = "--output-suffix" /\ i + 1 <= Len(args)
         THEN ParseArgsNoSkip(args, i + 1,
                              [st EXCEPT !.OUTPUT_SUFFIX = args[i + 1],
                                         !.examined = @ \o <<i, i + 1>>])
    ELSE IF ~StartsWithDashes(args[i])
         THEN ParseArgsNoSkip(args, i + 1,
                              [st EXCEPT !.timestamp = args[i],
                                         !.examined = Append(@, i)])
    ELSE ParseArgsNoSkip(args, i + 1, [st EXCEPT !.examined = Append(@, i)])

\* the while loop over args = sys.argv[2:]; i is the 1-based index; examined
\* lists the indices the loop reads as args[i] or args[i + 1]
RECURSIVE ParseArgs(_, _, _)
ParseArgs(args, i, st) ==
    IF i > Len(args) THEN st
    ELSE IF args[i] = "--filter" /\ i + 1 <= Len(args)
         THEN ParseArgs(args, i + 2,
                        [st EXCEPT !.FILE_FILTER = args[i + 1],
                                   !.examined = @ \o <<i, i + 1>>])
    ELSE IF args[i] = "--output-suffix" /\ i + 1 <= Len(args)
         THEN ParseArgs(args, i + 2,
                        [st EXCEPT !.OUTPUT_SUFFIX = args[i + 1],
                                   !.examined = @ \o <<i, i + 1>>])
    ELSE IF ~StartsWithDashes(args[i])
         THEN ParseArgs(args, i + 1,
                        [st EXCEPT !.timestamp = args[i], !.examined = Append(@, i)])
    ELSE ParseArgs(args, i + 1, [st EXCEPT !.examined = Append(@, i)])

-----------------------------------------------------------------------------
(* load_test_results *)

\* the characters of the file names, in code point order
CharOrder ==
    <<"*", "-", ".", "0", "1", "2", "5", "6", "?", "a", "b", "c", "d", "e", "f", "g",
      "i", "j", "l", "n", "o", "p", "q", "r", "s", "t", "u", "v", "x">>

CharRank(c) == CHOOSE i \in 1..Len(CharOrder) : CharOrder[i] = c

\* a < b for two strings given by their characters
RECURSIVE SpellLess(_, _)
SpellLess(a, b) ==
    IF b = <<>> THEN FALSE
    ELSE IF a = <<>> THEN TRUE
    ELSE IF Head(a) # Head(b) THEN CharRank(Head(a)) < CharRank(Head(b))
    ELSE SpellLess(Tail(a), Tail(b))

\* sorted(S) for a set of file names
RECURSIVE SortedNames(_)
SortedNames(S) ==
    IF S = {} THEN <<>>
    ELSE LET m == CHOOSE x \in S :
                     \A y \in S \ {x} : SpellLess(Spelling[x], Spelling[y])
         IN  <<m>> \o SortedNames(S \ {m})

\* the names a raw directory can hold
RawNames == {"a-i.json", "b-q.json", "c-i.json", "d-q.json", "n.txt"}

\* sorted(raw_dir.glob('*.json'))
SortedJsonFiles(files) ==
    SortedNames({n \in RawNames : files[n].kind # "absent" /\ fnmatch(n, "*.json")})

\* the filter left out: every *.json file is a candidate
CandidatesUnfiltered(files, filter) == SortedJsonFiles(files)

\* the files that pass "if FILE_FILTER and not fnmatch(...): continue"
Candidates(files, filter) ==
    SelectSeq(SortedJsonFiles(files),
              LAMBDA n : ~(filter # "" /\ ~fnmatch(n, filter)))

\* the loop left at the first file that does not parse ("break" for "continue")
LoadedDocsUntilBad(files, filter) ==
    LET cand == Candidates(files, filter)
        stop == IF \E i \in 1..Len(cand) : files[cand[i]].kind = "bad"
                THEN (CHOOSE i \in 1..Len(cand) :
                         /\ files[cand[i]].kind = "bad"
                         /\ \A j \in 1..(i - 1) : files[cand[j]].kind # "bad") - 1
                ELSE Len(cand)
    IN  [i \in 1..stop |-> files[cand[i]].doc]

\* the documents json.load returns for the candidates that parse, in order
LoadedDocs(files, filter) ==
    LET ok == SelectSeq(Candidates(files, filter), LAMBDA n : files[n].kind = "ok")
    IN  [i \in 1..Len(ok) |-> files[ok[i]].doc]

\* the candidates json.load fails on: one warning each
FailedFiles(files, filter) ==
    SelectSeq(Candidates(files, filter), LAMBDA n : files[n].kind = "bad")

-----------------------------------------------------------------------------
(* Documents *)

Point(ts, v) == [timestamp |-> ts, value |-> v]

\* the two documents of the example scenario, with a time-series block and a
\* per-container block added
DocLarge ==
    [load_name |-> "large",
     config |-> [mb_per_sec |-> 100],
     metrics |-> [throughput |-> [bytes_per_second |-> 94371840]],
     timeseries |->
        [cpu_cores |-> <<Point(1000, 2), Point(1060, 3)>>,
         memory_gb |-> <<Point(1060, 4), Point(1090, 5)>>,
         qps |-> <<Point(1000, 6)>>]]

DocSmall ==
    [load_name |-> "small",
     config |-> [mb_per_sec |-> 10, target_qps |-> 0],
     metrics |-> [throughput |-> [bytes_per_second |-> 10485760]],
     per_container |->
        [cpu_cores |->
            <<[container |-> "ingester", pod |-> "pod-0",
               values |-> <<Point(1000, 2), Point(1060, 1)>>]>>,
         memory_gb |->
            <<[container |-> "ingester", pod |-> "pod-0",
               values |-> <<Point(1060, 4), Point(1130, 5)>>],
              [container |-> "distributor", pod |-> "pod-1",
               values |-> <<Point(1000, 1)>>]>>]]

\* a document with nothing but a target, equal to that of DocSmall
DocBare == [config |-> [mb_per_sec |-> 10]]

\* what each raw file of the runs of Spec holds when it parses
FileDoc(name) ==
    CASE name = "a-i.json" -> DocLarge
      [] name = "b-q.json" -> DocSmall
      [] OTHER -> DocBare

Absent == [kind |-> "absent", doc |-> EmptyDict]

\* a file json.load fails on
Bad == [kind |-> "bad", doc |-> EmptyDict]

Ok(d) == [kind |-> "ok", doc |-> d]

-----------------------------------------------------------------------------
(* Output artifacts *)

\* print(text): a line of standard output that is no error
Notice(text) == [text |-> text, detail |-> ""]

\* output_dir / 'charts' / f'report-{timestamp}-{chart}.png'
Png(ts, chart) == [dir |-> "charts", stem |-> chart, tag |-> ts, ext |-> "png"]

\* a report file named without the suffix
ReportUnsuffixed(stem, suffix, ext) == [dir |-> "", stem |-> stem, tag |-> "", ext |-> ext]

\* output_dir / f'{stem}{OUTPUT_SUFFIX}.{ext}'
Report(stem, suffix, ext) == [dir |-> "", stem |-> stem, tag |-> suffix, ext |-> ext]

RECURSIVE SumCol(_, _)
SumCol(rows, col) ==
    IF rows = <<>> THEN 0 ELSE Head(rows)[col] + SumCol(Tail(rows), col)

\* the files the ten create_* calls of generate_static_charts save, in order
StaticCharts(table, ts) ==
    <<Png(ts, "latency_comparison"), Png(ts, "resource_usage"),
      Png(ts, "throughput_analysis"), Png(ts, "error_metrics"),
      Png(ts, "bytes_ingested"), Png(ts, "spans_returned")>>
    \o (IF SumCol(table, "actual_qps") = 0 /\ SumCol(table, "target_qps") = 0
        THEN <<>> ELSE <<Png(ts, "qps_comparison")>>)
    \o (IF Len(table) < 2 THEN <<>> ELSE <<Png(ts, "resources_vs_ingestion")>>)
    \o (IF SumCol(table, "actual_qps") = 0 \/ Len(table) < 2
        THEN <<>> ELSE <<Png(ts, "resources_vs_qps")>>)
    \o (IF Len(table) < 2 THEN <<>> ELSE <<Png(ts, "resource_scaling")>>)

\* the notices of the create_* calls of generate_static_charts that return
\* without a chart
StaticNotices(table) ==
    (IF SumCol(table, "actual_qps") = 0 /\ SumCol(table, "target_qps") = 0
     THEN <<Notice("No QPS data available, skipping QPS comparison chart")>>
     ELSE <<>>)
    \o (IF Len(table) < 2
        THEN <<Notice("Not enough data points for resources vs ingestion chart")>>
        ELSE <<>>)
    \o (IF SumCol(table, "actual_qps") = 0
        THEN <<Notice("No QPS data available, skipping resources vs QPS chart")>>
        ELSE IF Len(table) < 2
             THEN <<Notice("Not enough data points for resources vs QPS chart")>>
             ELSE <<>>)
    \o (IF Len(table) < 2
        THEN <<Notice("Not enough data points for combined scaling chart")>>
        ELSE <<>>)

\* the files the six create_timeseries_* calls save for a non-empty ts_df
TimeseriesCharts(table, ts) ==
    <<Png(ts, "timeseries_latency"), Png(ts, "timeseries_resources"),
      Png(ts, "timeseries_throughput"), Png(ts, "timeseries_errors"),
      Png(ts, "timeseries_spans_returned")>>
    \o (IF SumCol(table, "qps") = 0 THEN <<>> ELSE <<Png(ts, "timeseries_qps")>>)

\* the notice of create_timeseries_qps_chart when it returns without a chart
TimeseriesNotices(table) ==
    IF SumCol(table, "qps") = 0
    THEN <<Notice("No QPS time-series data available, skipping QPS time-series chart")>>
    ELSE <<>>

\* the files the two create_per_container_* calls save
ContainerCharts(ts) ==
    <<Png(ts, "per_container_cpu"), Png(ts, "per_container_memory")>>

\* generate_per_container_report: container_stats is non-empty iff a document
\* has a per_container block with a CPU or memory series holding values
HasContainerStats(rs) ==
    \E i \in 1..Len(rs) :
        LET per_container == Get(rs[i], "per_container", EmptyDict)
            series == Get(per_container, "cpu_cores", <<>>)
                      \o Get(per_container, "memory_gb", <<>>)
        IN  /\ DOMAIN per_container # {}
            /\ \E k \in 1..Len(series) : Get(series[k], "values", <<>>) # <<>>

-----------------------------------------------------------------------------
(* generate_per_container_report *)

\* max(values) if values else 0
MaxOrZero(S) == IF S = {} THEN 0 ELSE CHOOSE x \in S : \A y \in S : x >= y

\* [item.get('value', 0) for item in values if item.get('value') is not None]
CpuValues(values) ==
    {values[i].value : i \in {k \in 1..Len(values) : "value" \in DOMAIN values[k]}}

\* [item.get('value', 0) for item in values if item.get('value', 0) > 0]
MemValues(values) ==
    {Get(values[i], "value", 0) : i \in 1..Len(values)} \ {x \in Int : x <= 0}

\* the entries of a series list that have values, in order
WithValues(series) ==
    SelectSeq(series, LAMBDA info : Get(info, "values", <<>>) # <<>>)

\* the (container, pod) of an entry of a series list
StatKey(info) == <<Get(info, "container", "unknown"), Get(info, "pod", "unknown")>>

\* cpu_by_container / memory_by_container: (container, pod) -> the values of
\* the last entry of the list with that key
ByContainer(series) ==
    LET kept == WithValues(series)
    IN  [key \in {StatKey(kept[i]) : i \in 1..Len(kept)} |->
            kept[CHOOSE i \in 1..Len(kept) :
                    /\ StatKey(kept[i]) = key
                    /\ \A j \in (i + 1)..Len(kept) : StatKey(kept[j]) # key].values]

\* the entry appended to container_stats for a key of all_keys (the averages
\* and the percentages derived from them are left out)
StatsEntry(load_name, key, cpu_by_container, memory_by_container) ==
    [load_name |-> load_name, container |-> key[1], pod |-> key[2],
     max_cpu_cores |-> IF key \in DOMAIN cpu_by_container
                       THEN MaxOrZero(CpuValues(cpu_by_container[key])) ELSE 0,
     max_memory_gb |-> IF key \in DOMAIN memory_by_container
                       THEN MaxOrZero(MemValues(memory_by_container[key])) ELSE 0]

\* a set of (container, pod) keys as a list; all_keys is a Python set, whose
\* order of iteration does not reach the report: the keys of one document are
\* distinct and the list is sorted by them afterwards
RECURSIVE KeyList(_)
KeyList(S) ==
    IF S = {} THEN <<>>
    ELSE LET k == CHOOSE x \in S :
                     \A y \in S : LexLess(<<StrRank(x[1]), StrRank(x[2])>>,
                                          <<StrRank(y[1]), StrRank(y[2])>>) \/ x = y
         IN  <<k>> \o KeyList(S \ {k})

\* the entries one document adds to container_stats
StatsOf(r) ==
    LET per_container == Get(r, "per_container", EmptyDict)
        cpu_by_container == ByContainer(Get(per_container, "cpu_cores", <<>>))
        memory_by_container == ByContainer(Get(per_container, "memory_gb", <<>>))
        all_keys == KeyList(DOMAIN cpu_by_container \cup DOMAIN memory_by_container)
    IN  IF DOMAIN per_container = {} THEN <<>>
        ELSE [i \in 1..Len(all_keys) |->
                 StatsEntry(Get(r, "load_name", "unknown"), all_keys[i],
                            cpu_by_container, memory_by_container)]

\* container_stats after the loop over results
RECURSIVE ContainerStats(_)
ContainerStats(rs) ==
    IF rs = <<>> THEN <<>> ELSE StatsOf(Head(rs)) \o ContainerStats(Tail(rs))

\* df_containers.sort_values(['load_name', 'pod', 'container'])
SortedStats(stats) ==
    SortValuesLex(stats,
                  [i \in 1..Len(stats) |->
                      <<StrRank(stats[i].load_name), StrRank(stats[i].pod),
                        StrRank(stats[i].container)>>])

\* the sum of column col over the rows of the group (load, pod): pod_totals
PodTotal(stats, load, pod, col) ==
    SumCol(SelectSeq(stats, LAMBDA row : row.load_name = load /\ row.pod = pod), col)

\* the three kinds of <tr> of the report
SeparatorTr == [kind |-> "separator"]

PodTotalTr(stats, load, pod) ==
    [kind |-> "pod_total", load_name |-> load, pod |-> pod,
     pod_max_cpu_cores |-> PodTotal(stats, load, pod, "max_cpu_cores"),
     pod_max_memory_gb |-> PodTotal(stats, load, pod, "max_memory_gb")]

ContainerTr(row) ==
    [kind |-> "container", load_name |-> row.load_name, container |-> row.container,
     pod |-> row.pod, max_cpu_cores |-> row.max_cpu_cores,
     max_memory_gb |-> row.max_memory_gb]

\* the loop over df_containers.iterrows() from row i on; current_load and
\* current_pod are <<>> for None and <<name>> otherwise
RECURSIVE ReportLoop(_, _, _, _)
ReportLoop(stats, i, current_load, current_pod) ==
    IF i > Len(stats)
    THEN IF current_pod # <<>>
         THEN <<PodTotalTr(stats, current_load[1], current_pod[1])>>
         ELSE <<>>
    ELSE LET row == stats[i]
             changed == <<row.load_name>> # current_load
             load == IF changed THEN <<row.load_name>> ELSE current_load
             pod == IF changed THEN <<>> ELSE current_pod
         IN  (IF changed /\ current_load # <<>> THEN <<SeparatorTr>> ELSE <<>>)
             \o (IF <<row.pod>> # pod /\ pod # <<>>
                 THEN <<PodTotalTr(stats, load[1], pod[1])>> ELSE <<>>)
             \o <<ContainerTr(row)>>
             \o ReportLoop(stats, i + 1, load, <<row.pod>>)

\* the rows of <tbody> in per-container-report.html
ContainerReportHtml(rs) == ReportLoop(SortedStats(ContainerStats(rs)), 1, <<>>, <<>>)

-----------------------------------------------------------------------------
(* load_report_metadata and get_report_name *)

\* the string with the given characters
Unspell(chars) == CHOOSE s \in DOMAIN Spelling : Spelling[s] = chars

\* s.split('/')[0]: the characters before the first '/'
RECURSIVE SplitFirst(_)
SplitFirst(chars) ==
    IF chars = <<>> \/ Head(chars) = "/" THEN <<>>
    ELSE <<Head(chars)>> \o SplitFirst(Tail(chars))

\* s[:n]
Prefix(chars, n) == SubSeq(chars, 1, Min({n, Len(chars)}))

\* the names results_dir can hold besides raw/
ReportDirNames == {"report-1.json", "report-2.json", "n.txt"}

\* sorted(S, reverse=True) for a set of file names
ReverseSortedNames(S) ==
    LET up == SortedNames(S) IN [i \in 1..Len(up) |-> up[Len(up) + 1 - i]]

\* sorted(results_dir.glob('report-*.json'), reverse=True)
ReportFiles(files) ==
    ReverseSortedNames({n \in ReportDirNames :
                           files[n].kind # "absent" /\ fnmatch(n, "report-*.json")})

\* the list taken in ascending order: the oldest report comes first
OldestReport(files) == ReportFiles(files)[Len(ReportFiles(files))]

\* report_files[0]
NewestReport(files) == ReportFiles(files)[1]

\* load_report_metadata: what it returns, or {} after the warning and when
\* there is no report file
load_report_metadata(files) ==
    IF ReportFiles(files) = <<>> THEN EmptyDict
    ELSE LET f == files[NewestReport(files)]
         IN  IF f.kind = "ok" THEN Get(f.doc, "report_metadata", EmptyDict)
             ELSE EmptyDict

\* the files load_report_metadata calls open() on
ReportOpened(files) ==
    IF ReportFiles(files) = <<>> THEN <<>> ELSE <<NewestReport(files)>>

\* the "Warning: Could not parse report file" lines of load_report_metadata
ReportWarnings(files) ==
    IF ReportFiles(files) # <<>>
       /\ files[NewestReport(files)].kind \in {"bad", "unreadable"}
    THEN <<[text |-> "Warning: Could not parse report file",
            detail |-> NewestReport(files)]>>
    ELSE <<>>

\* get_report_name(metadata)
get_report_name(metadata) ==
    LET cluster_name == Get(Get(metadata, "cluster", EmptyDict), "name", "")
        generated_at == Get(metadata, "generated_at", "")
    IN  IF cluster_name # "" THEN Unspell(SplitFirst(Spelling[cluster_name]))
        ELSE IF generated_at # ""
             THEN Unspell(Spelling["Report "] \o Prefix(Spelling[generated_at], 10))
             ELSE "Tempo Performance Test"

\* a file open() fails on
Unreadable == [kind |-> "unreadable", doc |-> EmptyDict]

\* report documents of every shape get_report_name tells apart
ReportDocs ==
    {[report_metadata |-> [cluster |-> [name |-> "prod/eu"]]],
     [report_metadata |-> [cluster |-> [name |-> "/eu"]]],
     [report_metadata |->
         [cluster |-> [name |-> ""], generated_at |-> "2025-11-26T10:00"]],
     [report_metadata |-> [generated_at |-> "2025-11-26"]],
     [report_metadata |-> EmptyDict],
     EmptyDict}

-----------------------------------------------------------------------------
(* main *)

AllTables == {"summary", "timeseries", "per_container"}

\* print(text ...) followed by sys.exit(1); detail is the part of the message
\* that varies
Fatal(text, detail) ==
    /\ errors' = Append(errors, [text |-> text, detail |-> detail])
    /\ pc' = "failed"
    /\ exit_status' = 1

\* the check of raw_dir left out
RawDirNeverMissing(exists) == FALSE

\* not raw_dir.exists()
RawDirMissing(exists) == ~exists

\* the error message never naming a pattern
NoFilterMsg(filter) == ""

\* filter_msg = f" matching '{FILE_FILTER}'" if FILE_FILTER else "": the pattern
\* the error message names, "" when it names none
filter_msg(filter) == IF filter # "" THEN filter ELSE ""

\* the check of the loaded list left out
NoResultsIgnored(rs) == FALSE

\* not results
NoResults(rs) == rs = <<>>

\* len(sys.argv) < 2: usage message, sys.exit(1)
Usage ==
    /\ pc = "start"
    /\ Len(argv) < 1
    /\ Fatal("Usage", "")
    /\ UNCHANGED <<argv, examined, notices, report_files, report_opened, report_name, summary_html,
                   container_report, dir_exists, raw_exists, raw_files, FILE_FILTER,
                   OUTPUT_SUFFIX, timestamp, opened, warnings, results, df, ts_df,
                   container_df, built, charts_dir, outputs>>

\* the argument loop of main
ParseArguments ==
    /\ pc = "start"
    /\ Len(argv) >= 1
    /\ LET st == ParseArgs(Tail(argv), 1,
                           [FILE_FILTER |-> FILE_FILTER,
                            OUTPUT_SUFFIX |-> OUTPUT_SUFFIX,
                            timestamp |-> NowTimestamp,
                            examined |-> <<>>])
       IN  /\ FILE_FILTER' = st.FILE_FILTER
           /\ examined' = st.examined
           /\ OUTPUT_SUFFIX' = st.OUTPUT_SUFFIX
           /\ timestamp' = st.timestamp
    /\ pc' = "check_dir"
    /\ UNCHANGED <<argv, notices, report_files, report_opened, report_name, summary_html,
                   container_report, dir_exists, raw_exists, raw_files, opened, warnings, errors,
                   results, df, ts_df, container_df, built, charts_dir, outputs,
                   exit_status>>

\* if not results_dir.exists(): error message, sys.exit(1)
CheckResultsDir ==
    /\ pc = "check_dir"
    /\ IF ~dir_exists THEN Fatal("Results directory not found", "")
       ELSE pc' = "metadata" /\ UNCHANGED <<errors, exit_status>>
    /\ UNCHANGED <<argv, examined, notices, report_files, report_opened, report_name, summary_html,
                   container_report, dir_exists, raw_exists, raw_files, FILE_FILTER,
                   OUTPUT_SUFFIX, timestamp, opened, warnings, results, df, ts_df,
                   container_df, built, charts_dir, outputs>>

\* metadata = load_report_metadata(results_dir);
\* report_name = get_report_name(metadata)
LoadReportMetadata ==
    /\ pc = "metadata"
    /\ report_opened' = ReportOpened(report_files)
    /\ notices' = notices \o ReportWarnings(report_files)
    /\ report_name' = get_report_name(load_report_metadata(report_files))
    /\ pc' = "load"
    /\ UNCHANGED <<argv, examined, report_files, summary_html, container_report, dir_exists,
                   raw_exists, raw_files, FILE_FILTER,
                   OUTPUT_SUFFIX, timestamp, opened, warnings, errors, results, df, ts_df,
                   container_df, built, charts_dir, outputs, exit_status>>

\* results = load_test_results(results_dir)
LoadTestResults ==
    /\ pc = "load"
    /\ IF RawDirMissing(raw_exists)
       THEN /\ Fatal("Raw results directory not found", "")
            /\ UNCHANGED <<opened, warnings, results>>
       ELSE /\ opened' = Candidates(raw_files, FILE_FILTER)
            /\ warnings' = FailedFiles(raw_files, FILE_FILTER)
            /\ results' = LoadedDocs(raw_files, FILE_FILTER)
            /\ IF NoResults(results')
               THEN Fatal("No valid JSON files found", filter_msg(FILE_FILTER))
               ELSE pc' = "summary" /\ UNCHANGED <<errors, exit_status>>
    /\ UNCHANGED <<argv, examined, notices, report_files, report_opened, report_name, summary_html,
                   container_report, dir_exists, raw_exists, raw_files, FILE_FILTER,
                   OUTPUT_SUFFIX, timestamp, df, ts_df, container_df, built,
                   charts_dir, outputs>>

\* df = results_to_dataframe(results)
ResultsToDataframe ==
    /\ pc = "summary"
    /\ df' \in results_to_dataframe(results)
    /\ built' = built \cup {"summary"}
    /\ pc' = "timeseries"
    /\ UNCHANGED <<argv, examined, notices, report_files, report_opened, report_name, summary_html,
                   container_report, dir_exists, raw_exists, raw_files, FILE_FILTER,
                   OUTPUT_SUFFIX, timestamp, opened, warnings, errors, results, ts_df,
                   container_df, charts_dir, outputs, exit_status>>

\* the extraction put off: main goes on to the charts without the table
ExtractTimeseriesDataDeferred ==
    /\ pc = "timeseries"
    /\ pc' = "static_charts"
    /\ UNCHANGED <<argv, examined, notices, report_files, report_opened, report_name, summary_html,
                   container_report, dir_exists, raw_exists, raw_files, FILE_FILTER,
                   OUTPUT_SUFFIX, timestamp, opened, warnings, errors, results, df,
                   ts_df, container_df, built, charts_dir, outputs, exit_status>>

\* ts_df = extract_timeseries_data(results)
ExtractTimeseriesData ==
    /\ pc = "timeseries"
    /\ ts_df' = extract_timeseries_data(results)
    /\ built' = built \cup {"timeseries"}
    /\ pc' = "static_charts"
    /\ notices' = notices \o (IF ts_df' = <<>>
                               THEN <<Notice("No time-series data found (legacy format)")>>
                               ELSE <<>>)
    /\ UNCHANGED <<argv, examined, report_files, report_opened, report_name, summary_html,
                   container_report, dir_exists, raw_exists, raw_files, FILE_FILTER,
                   OUTPUT_SUFFIX, timestamp, opened, warnings, errors, results, df,
                   container_df, charts_dir, outputs, exit_status>>

\* generate_static_charts with a chart that calls sys.exit(1), where the code
\* returns, when the table has fewer than two rows
GenerateStaticChartsExit ==
    /\ pc = "static_charts"
    /\ charts_dir' = TRUE
    /\ outputs' = outputs \o StaticCharts(df, timestamp)
    /\ IF Len(df) < 2 THEN Fatal("Need at least 2 data points", "")
       ELSE pc' = "timeseries_charts" /\ UNCHANGED <<errors, exit_status>>
    /\ UNCHANGED <<argv, examined, notices, report_files, report_opened, report_name, summary_html,
                   container_report, dir_exists, raw_exists, raw_files, FILE_FILTER,
                   OUTPUT_SUFFIX, timestamp, opened, warnings, results, df, ts_df,
                   container_df, built>>

\* generate_static_charts(df, results_dir, report_name, timestamp)
GenerateStaticCharts ==
    /\ pc = "static_charts"
    /\ charts_dir' = TRUE
    /\ outputs' = outputs \o StaticCharts(df, timestamp)
    /\ pc' = "timeseries_charts"
    /\ notices' = notices \o StaticNotices(df)
    /\ UNCHANGED <<argv, examined, report_files, report_opened, report_name, summary_html,
                   container_report, dir_exists, raw_exists, raw_files, FILE_FILTER,
                   OUTPUT_SUFFIX, timestamp, opened, warnings, errors, results, df, ts_df,
                   container_df, built, exit_status>>

\* generate_timeseries_charts(ts_df, results_dir, report_name, timestamp, results):
\* the time-series charts unless ts_df is empty, then (results is non-empty)
\* container_df = extract_per_container_data(results) and its two charts
GenerateTimeseriesCharts ==
    /\ pc = "timeseries_charts"
    /\ container_df' = IF results # <<>> THEN extract_per_container_data(results)
                       ELSE container_df
    /\ built' = IF results # <<>> THEN built \cup {"per_container"} ELSE built
    /\ charts_dir' = TRUE
    /\ outputs' = outputs
                  \o (IF ts_df = <<>> THEN <<>>
                      ELSE TimeseriesCharts(ts_df, timestamp))
                  \o (IF results # <<>> /\ container_df' # <<>>
                      THEN ContainerCharts(timestamp) ELSE <<>>)
    /\ pc' = "dashboard"
    /\ notices' = notices
                   \o (IF ts_df = <<>>
                       THEN <<Notice("No time-series data found, skipping time-series charts")>>
                       ELSE TimeseriesNotices(ts_df))
                   \o (IF results # <<>> /\ container_df' = <<>>
                       THEN <<Notice("No per-container data found, skipping per-container charts")>>
                       ELSE <<>>)
    /\ UNCHANGED <<argv, examined, report_files, report_opened, report_name, summary_html,
                   container_report, dir_exists, raw_exists, raw_files, FILE_FILTER,
                   OUTPUT_SUFFIX, timestamp, opened, warnings, errors, results, df, ts_df,
                   exit_status>>

\* generate_interactive_dashboard(df, results_dir, report_name)
GenerateInteractiveDashboard ==
    /\ pc = "dashboard"
    /\ outputs' = Append(outputs, Report("dashboard", OUTPUT_SUFFIX, "html"))
    /\ pc' = "timeseries_dashboard"
    /\ UNCHANGED <<argv, examined, notices, report_files, report_opened, report_name, summary_html,
                   container_report, dir_exists, raw_exists, raw_files, FILE_FILTER,
                   OUTPUT_SUFFIX, timestamp, opened, warnings, errors, results, df, ts_df,
                   container_df, built, charts_dir, exit_status>>

\* generate_timeseries_dashboard with sys.exit(1), where the code returns, when
\* the table is empty
GenerateTimeseriesDashboardExit ==
    /\ pc = "timeseries_dashboard"
    /\ IF ts_df = <<>> THEN /\ Fatal("No time-series data found", "")
                            /\ UNCHANGED outputs
       ELSE /\ outputs' = Append(outputs,
                                 Report("timeseries-dashboard", OUTPUT_SUFFIX, "html"))
            /\ pc' = "summary_table"
            /\ UNCHANGED <<errors, exit_status>>
    /\ UNCHANGED <<argv, examined, notices, report_files, report_opened, report_name,
                   summary_html, container_report, dir_exists, raw_exists, raw_files,
                   FILE_FILTER, OUTPUT_SUFFIX, timestamp, opened, warnings, results,
                   df, ts_df, container_df, built, charts_dir>>

\* generate_timeseries_dashboard(ts_df, results_dir, report_name)
GenerateTimeseriesDashboard ==
    /\ pc = "timeseries_dashboard"
    /\ outputs' = IF ts_df = <<>> THEN outputs
                  ELSE Append(outputs,
                              Report("timeseries-dashboard", OUTPUT_SUFFIX, "html"))
    /\ pc' = "summary_table"
    /\ notices' = IF ts_df = <<>>
                  THEN Append(notices,
                              Notice("No time-series data found, skipping time-series dashboard"))
                  ELSE notices
    /\ UNCHANGED <<argv, examined, report_files, report_opened, report_name, summary_html,
                   container_report, dir_exists, raw_exists, raw_files, FILE_FILTER,
                   OUTPUT_SUFFIX, timestamp, opened, warnings, errors, results, df, ts_df,
                   container_df, built, charts_dir, exit_status>>

\* main returning after the summary table, without the per-container report
GenerateSummaryTableLast ==
    /\ pc = "summary_table"
    /\ df' = AddEfficiency(df)
    /\ outputs' = Append(outputs, Report("summary", OUTPUT_SUFFIX, "html"))
    /\ summary_html' = SummaryHtml(df')
    /\ pc' = "done"
    /\ exit_status' = 0
    /\ UNCHANGED <<argv, examined, notices, report_files, report_opened, report_name,
                   container_report, dir_exists, raw_exists, raw_files,
                   FILE_FILTER, OUTPUT_SUFFIX, timestamp, opened, warnings, errors,
                   results, ts_df, container_df, built, charts_dir>>

\* generate_summary_table(df, results_dir, report_name)
GenerateSummaryTable ==
    /\ pc = "summary_table"
    /\ df' = AddEfficiency(df)
    /\ summary_html' = SummaryHtml(df')
    /\ outputs' = Append(outputs, Report("summary", OUTPUT_SUFFIX, "html"))
    /\ pc' = "container_report"
    /\ UNCHANGED <<argv, examined, notices, report_files, report_opened, report_name,
                   container_report, dir_exists, raw_exists, raw_files, FILE_FILTER,
                   OUTPUT_SUFFIX, timestamp, opened, warnings, errors, results, ts_df,
                   container_df, built, charts_dir, exit_status>>

\* generate_per_container_report(results, results_dir, report_name), the closing
\* messages of main, and the normal end of the process
GeneratePerContainerReport ==
    /\ pc = "container_report"
    /\ outputs' = IF HasContainerStats(results)
                  THEN outputs
                       \o <<Report("per-container-report", OUTPUT_SUFFIX, "html"),
                            Report("per-container-report", OUTPUT_SUFFIX, "csv")>>
                  ELSE outputs
    /\ pc' = "done"
    /\ exit_status' = 0
    /\ notices' = IF HasContainerStats(results) THEN notices
                  ELSE Append(notices,
                              Notice("No per-container data found, skipping per-container report"))
    /\ container_report' = IF HasContainerStats(results)
                           THEN ContainerReportHtml(results)
                           ELSE container_report
    /\ UNCHANGED <<argv, examined, report_files, report_opened, report_name, summary_html,
                   dir_exists, raw_exists, raw_files, FILE_FILTER,
                   OUTPUT_SUFFIX, timestamp, opened, warnings, errors, results, df, ts_df,
                   container_df, built, charts_dir>>

Next ==
    \/ Usage
    \/ ParseArguments
    \/ CheckResultsDir
    \/ LoadReportMetadata
    \/ LoadTestResults
    \/ ResultsToDataframe
    \/ ExtractTimeseriesData
    \/ GenerateStaticCharts
    \/ GenerateTimeseriesCharts
    \/ GenerateInteractiveDashboard
    \/ GenerateTimeseriesDashboard
    \/ GenerateSummaryTable
    \/ GeneratePerContainerReport

-----------------------------------------------------------------------------
(* Runs of main over command lines and file systems *)

\* sys.argv[1:] of the runs
ArgvSet ==
    {<<>>,
     <<"results">>,
     <<"results", "20251126">>,
     <<"results", "--filter", "*-i.json">>,
     <<"results", "--filter", "*-x.json">>,
     <<"results", "--filter", "*-i.json", "--output-suffix", "-ingest">>,
     <<"results", "20251126", "--verbose", "--output-suffix", "-ingest">>}

\* the raw directories of the runs: each JSON file absent, well-formed or
\* malformed, and possibly a file that is no *.json
RawDirs ==
    {f \in [RawNames -> {Absent, Bad} \cup {Ok(FileDoc(n)) : n \in RawNames}] :
        /\ \A n \in RawNames : f[n].kind = "ok" => f[n].doc = FileDoc(n)
        /\ f["n.txt"].kind # "bad"
        /\ f["d-q.json"].kind = "absent"}

NoFiles == [n \in RawNames |-> Absent]

\* the report files of the runs: the newest of any kind, an older one and a
\* file that is no report
ReportDirs ==
    {f \in [ReportDirNames ->
                {Absent, Bad, Unreadable} \cup {Ok(d) : d \in ReportDocs}] :
        /\ f["report-1.json"]
              \in {Absent, Bad,
                   Ok([report_metadata |-> [cluster |-> [name |-> "prod/eu"]]])}
        /\ f["n.txt"]
              \in {Absent, Ok([report_metadata |-> [cluster |-> [name |-> "/eu"]]])}}

NoReports == [n \in ReportDirNames |-> Absent]

\* the state of a fresh process
Fresh ==
    /\ pc = "start"
    /\ FILE_FILTER = ""
    /\ OUTPUT_SUFFIX = ""
    /\ timestamp = ""
    /\ opened = <<>>
    /\ warnings = <<>>
    /\ errors = <<>>
    /\ results = <<>>
    /\ df = <<>>
    /\ ts_df = <<>>
    /\ container_df = <<>>
    /\ built = {}
    /\ charts_dir = FALSE
    /\ outputs = <<>>
    /\ exit_status = -1
    /\ notices = <<>>
    /\ report_opened = <<>>
    /\ report_name = ""
    /\ summary_html = <<>>
    /\ container_report = <<>>
    /\ examined = <<>>

Init ==
    /\ argv \in ArgvSet
    /\ dir_exists \in BOOLEAN
    /\ raw_exists \in BOOLEAN
    /\ raw_files \in RawDirs
    /\ (~dir_exists => ~raw_exists)
    /\ (~raw_exists => raw_files = NoFiles)
    /\ report_files \in ReportDirs
    /\ (~dir_exists => report_files = NoReports)
    /\ Fresh

Spec == Init /\ [][Next]_vars

-----------------------------------------------------------------------------
(* Runs of the table builders over document collections *)

\* d without the keys in keys
Remove(d, keys) == [k \in DOMAIN d \ keys |-> d[k]]

\* a metrics block with every section and every field
FullMetrics ==
    [throughput |-> [bytes_per_second |-> 1048576, spans_per_second |-> 7],
     resources |->
        [avg_cpu_cores |-> 2, max_cpu_cores |-> 3, min_cpu_cores |-> 1,
         sustained_cpu_cores |-> 2, avg_memory_gb |-> 4, max_memory_gb |-> 6,
         min_memory_gb |-> 3, peak_memory_gb |-> 7],
     resource_recommendations |-> [cpu_cores |-> 4, memory_gb |-> 8],
     query_latencies |->
        [p50_seconds |-> 1, p90_seconds |-> 2, p99_seconds |-> 3, avg_seconds |-> 1],
     errors |->
        [error_rate_percent |-> 1, dropped_spans_per_second |-> 2,
         discarded_spans_per_second |-> 3],
     query_results |-> [actual_qps |-> 4, avg_spans_returned |-> 9]]

FullConfig == [mb_per_sec |-> 3, target_qps |-> 5]

\* metrics blocks with any set of sections missing, with one section empty, or
\* with one field missing
MetricsShapes ==
    {Remove(FullMetrics, S) : S \in SUBSET DOMAIN FullMetrics}
    \cup {[FullMetrics EXCEPT ![k] = EmptyDict] : k \in DOMAIN FullMetrics}
    \cup UNION {{[FullMetrics EXCEPT ![k] = Remove(@, {f})] :
                    f \in DOMAIN FullMetrics[k]} : k \in DOMAIN FullMetrics}

ConfigShapes == {Remove(FullConfig, S) : S \in SUBSET DOMAIN FullConfig}

\* documents with any of load_name, config and metrics missing
ShapeDocs ==
    {Remove([load_name |-> "small", config |-> c, metrics |-> m], S) :
        c \in ConfigShapes, m \in MetricsShapes,
        S \in SUBSET {"load_name", "config", "metrics"}}

Throughput(name, target, bytes) ==
    [load_name |-> name,
     config |-> [mb_per_sec |-> target],
     metrics |-> [throughput |-> [bytes_per_second |-> bytes]]]

\* documents that differ in name, target and measured throughput, some with
\* the same target
SortDocs ==
    {Throughput("small", 10, 10485760),
     Throughput("large", 100, 94371840),
     Throughput("large", 10, 0),
     Throughput("small", 3, 1048576),
     [metrics |-> [throughput |-> [bytes_per_second |-> 1048576]]]}

\* a second document of the load "small": its series begin before those of the
\* other documents of the load, share timestamps with them, and name two pods
\* of one container
DocPooled ==
    [load_name |-> "small",
     config |-> [mb_per_sec |-> 10],
     timeseries |->
        [cpu_cores |-> <<Point(950, 4), Point(1130, 5)>>,
         memory_gb |-> <<Point(950, 1), Point(1000, 9)>>],
     per_container |->
        [cpu_cores |->
            <<[container |-> "ingester", pod |-> "pod-1",
               values |-> <<Point(940, 1), Point(1060, 2)>>],
              [container |-> "distributor", pod |-> "pod-0",
               values |-> <<Point(1100, 3)>>]>>,
         memory_gb |->
            <<[container |-> "ingester", pod |-> "pod-0",
               values |-> <<Point(1060, 6)>>],
              [container |-> "ingester", pod |-> "pod-1",
               values |-> <<Point(1060, 7)>>]>>]]

\* documents with time-series and per-container blocks: series that repeat a
\* timestamp, lack the CPU series, lack container and pod names, are empty
SeriesDocs ==
    {DocLarge,
     DocSmall,
     [load_name |-> "small",
      config |-> [mb_per_sec |-> 10, target_qps |-> 5],
      timeseries |->
         [cpu_cores |-> <<Point(1130, 1), Point(1010, 2), Point(1130, 3)>>,
          memory_gb |-> <<Point(1010, 2)>>,
          p50_latency_seconds |-> <<Point(1130, 1)>>]],
     [load_name |-> "large",
      timeseries |-> [memory_gb |-> <<Point(1000, 2)>>],
      per_container |->
         [cpu_cores |->
            <<[values |-> <<Point(1000, 1), Point(1000, 2)>>],
              [container |-> "ingester", pod |-> "pod-1",
               values |-> <<[value |-> 3]>>]>>]],
     [timeseries |-> [cpu_cores |-> <<Point(900, 1)>>],
      per_container |->
         [memory_gb |->
            <<[container |-> "ingester", pod |-> "pod-1",
               values |-> <<Point(1200, 2), Point(1000, 3)>>]>>]],
     [load_name |-> "small", timeseries |-> EmptyDict,
      per_container |-> [cpu_cores |-> <<>>]],
     DocPooled}

\* the sequences over S of length 1..n
SeqsUpTo(S, n) == UNION {[1..k -> S] : k \in 1..n}

\* the document collections the table builders are run on
TableInputs ==
    {<<d>> : d \in ShapeDocs}
    \cup SeqsUpTo(SortDocs, MaxDocs)
    \cup SeqsUpTo(SeriesDocs, MaxSeriesDocs)

\* a raw directory that holds the documents rs, in this order of file names
RawDirOf(rs) ==
    LET names == SortedNames(RawNames \ {"n.txt"})
    IN  [n \in RawNames |->
            IF \E i \in 1..Len(rs) : names[i] = n
            THEN Ok(rs[CHOOSE i \in 1..Len(rs) : names[i] = n])
            ELSE Absent]

\* main has parsed a command line without options and is about to load the
\* documents of a raw directory
InitTables ==
    /\ argv = <<"results">>
    /\ dir_exists = TRUE
    /\ raw_exists = TRUE
    /\ \E rs \in TableInputs : raw_files = RawDirOf(rs)
    /\ report_files = NoReports
    /\ pc = "load"
    /\ FILE_FILTER = ""
    /\ OUTPUT_SUFFIX = ""
    /\ timestamp = NowTimestamp
    /\ opened = <<>>
    /\ warnings = <<>>
    /\ errors = <<>>
    /\ results = <<>>
    /\ df = <<>>
    /\ ts_df = <<>>
    /\ container_df = <<>>
    /\ built = {}
    /\ charts_dir = FALSE
    /\ outputs = <<>>
    /\ exit_status = -1
    /\ notices = <<>>
    /\ report_opened = <<>>
    /\ report_name = "Tempo Performance Test"
    /\ summary_html = <<>>
    /\ container_report = <<>>
    /\ examined = <<>>

NextTables ==
    \/ LoadTestResults
    \/ ResultsToDataframe
    \/ ExtractTimeseriesData
    \/ GenerateStaticCharts
    \/ GenerateTimeseriesCharts
    \/ GenerateInteractiveDashboard
    \/ GenerateTimeseriesDashboard
    \/ GenerateSummaryTable
    \/ GeneratePerContainerReport

SpecTables == InitTables /\ [][NextTables]_vars

-----------------------------------------------------------------------------
(* Runs of the argument loop over every short command line *)

\* the tokens of the command lines: the two options, an unknown flag, a
\* timestamp, a pattern and a suffix
ArgTokens == {"--filter", "--output-suffix", "--verbose", "20251126", "*-i.json", "-ingest"}

\* the command lines: none, or a results directory followed by up to MaxArgs
\* tokens
ArgLists ==
    {<<>>, <<"results">>} \cup {<<"results">> \o a : a \in SeqsUpTo(ArgTokens, MaxArgs)}

\* a fresh process started on a results directory that does not exist
InitArgs ==
    /\ argv \in ArgLists
    /\ dir_exists = FALSE
    /\ raw_exists = FALSE
    /\ raw_files = NoFiles
    /\ report_files = NoReports
    /\ Fresh

NextArgs ==
    \/ Usage
    \/ ParseArguments
    \/ CheckResultsDir

SpecArgs == InitArgs /\ [][NextArgs]_vars

-----------------------------------------------------------------------------

(* Claims *)

\* the steps of main at which load_test_results has not returned yet
PreLoad == {"start", "check_dir", "metadata", "load"}

\* row is the summary row of document r, told by the three fields that
\* identify a document of the model
RowOfDoc(row, r) ==
    /\ row.load_name = Get(r, "load_name", "unknown")
    /\ row.mb_per_sec = Get2(r, "config", "mb_per_sec")
    /\ row.bytes_per_sec = Get3(r, "metrics", "throughput", "bytes_per_second")

\* C1: once results_to_dataframe has returned, the summary table has exactly
\* one row per loaded document (a one-to-one match of rows and documents) and
\* its rows ascend in mb_per_sec.
C1_OneRowPerDocumentAscending ==
    "summary" \in built =>
        /\ Len(df) = Len(results)
        /\ \E perm \in Permutations(1..Len(results)) :
              \A i \in 1..Len(df) : RowOfDoc(df[i], results[perm[i]])
        /\ \A i, j \in 1..Len(df) : i < j => df[i].mb_per_sec <= df[j].mb_per_sec

\* C1 witness: a table was built from documents that were not in ascending
\* order of their target
C1_Witness ==
    /\ "summary" \in built
    /\ \E i, j \in 1..Len(results) :
          /\ i < j
          /\ Get2(results[i], "config", "mb_per_sec")
                > Get2(results[j], "config", "mb_per_sec")

\* the rows with target t, in table order, are the rows of the documents with
\* target t, in input order
SameOrderAtTarget(t) ==
    LET rows == SelectSeq(df, LAMBDA row : row.mb_per_sec = t)
        docs == SelectSeq(results, LAMBDA r : Get2(r, "config", "mb_per_sec") = t)
    IN  /\ Len(rows) = Len(docs)
        /\ \A k \in 1..Len(rows) : RowOfDoc(rows[k], docs[k])

\* C2: rows with the same mb_per_sec appear in the summary table in the
\* relative order their documents had in the input (the sort is stable).
C2_TiesKeepInputOrder ==
    "summary" \in built =>
        \A t \in {df[i].mb_per_sec : i \in 1..Len(df)} : SameOrderAtTarget(t)

\* the steps of main between load_test_results and the end of the process
BuildSteps ==
    {"summary", "timeseries", "static_charts", "timeseries_charts", "dashboard",
     "timeseries_dashboard", "summary_table", "container_report"}

\* the raw files load_test_results is to read: the *.json files whose name
\* passes the filter when one is set
Wanted ==
    {n \in RawNames :
        /\ raw_files[n].kind # "absent"
        /\ fnmatch(n, "*.json")
        /\ (FILE_FILTER = "" \/ fnmatch(n, FILE_FILTER))}

\* s lists exactly the names of S, each once, in ascending order
ListsAscending(s, S) ==
    /\ Len(s) = Cardinality(S)
    /\ {s[i] : i \in 1..Len(s)} = S
    /\ \A i, j \in 1..Len(s) : i < j => SpellLess(Spelling[s[i]], Spelling[s[j]])

\* C3: when at least one file parses, every wanted file that fails to parse
\* got one warning, the loaded documents are those of the wanted files that
\* parse, in sorted file name order, and the run goes on: it is at one of the
\* steps that build the tables and write the outputs, none of which exits,
\* and it ends with status 0 and all tables built.
C3_BadFilesSkipped ==
    (pc \notin PreLoad /\ results # <<>>) =>
        /\ ListsAscending(warnings, {n \in Wanted : raw_files[n].kind = "bad"})
        /\ \E names \in [1..Len(results) -> RawNames] :
              /\ ListsAscending(names, {n \in Wanted : raw_files[n].kind = "ok"})
              /\ \A i \in 1..Len(results) : results[i] = raw_files[names[i]].doc
        /\ pc # "failed"
        /\ exit_status \in {-1, 0}
        /\ (pc = "done" <=> exit_status = 0)
        /\ (pc = "done" => built = AllTables /\ Len(df) = Len(results))
        /\ pc \in BuildSteps \cup {"done"}

\* C3 witness: the example scenario, one unparsable file among three, has
\* run to its end with a two-row summary table
C3_Witness ==
    /\ pc = "done"
    /\ exit_status = 0
    /\ Len(opened) = 3
    /\ Len(warnings) = 1
    /\ Len(df) = 2

\* C4: when no document is loaded (no raw JSON file, none matching the
\* filter, or none that parses), the run has ended in load_test_results with
\* status 1 and none of the three tables has been built.
C4_NoDocumentIsFatal ==
    (pc \notin PreLoad /\ Len(argv) >= 1 /\ dir_exists /\ raw_exists
        /\ {n \in Wanted : raw_files[n].kind = "ok"} = {}) =>
        /\ pc = "failed"
        /\ exit_status = 1
        /\ errors = <<[text |-> "No valid JSON files found", detail |-> FILE_FILTER]>>
        /\ built = {}
        /\ df = <<>> /\ ts_df = <<>> /\ container_df = <<>>

\* C4 witness: a filter is set, a well-formed file does not match it and the
\* only file that matches does not parse
C4_Witness ==
    /\ pc = "failed"
    /\ FILE_FILTER # ""
    /\ warnings # <<>>
    /\ \E n \in RawNames : raw_files[n].kind = "ok" /\ fnmatch(n, "*.json")

\* C5: when the results directory does not exist, or has no raw/
\* subdirectory, the run ends with its error message and status 1 and has
\* opened no raw file; without the results directory it ends before the
\* metadata and the raw directory are looked at.
C5_MissingDirectoryIsFatal ==
    /\ (Len(argv) >= 1 /\ ~dir_exists /\ pc \notin {"start", "check_dir"}) =>
          /\ pc = "failed"
          /\ exit_status = 1
          /\ errors = <<[text |-> "Results directory not found", detail |-> ""]>>
          /\ opened = <<>>
    /\ (Len(argv) >= 1 /\ dir_exists /\ ~raw_exists /\ pc \notin PreLoad) =>
          /\ pc = "failed"
          /\ exit_status = 1
          /\ errors = <<[text |-> "Raw results directory not found", detail |-> ""]>>
          /\ opened = <<>>

\* C5 witness: the results directory exists, raw/ does not, and the run has
\* ended
C5_Witness == dir_exists /\ ~raw_exists /\ pc = "failed"

\* C6: a run that has ended with a fatal exit has written no output artifact
\* and has not created the charts directory.
C6_FatalExitBeforeOutputs ==
    (pc = "failed" \/ exit_status = 1) => (outputs = <<>> /\ ~charts_dir)

\* C6 witness: a fatal exit after raw files were opened (no document loaded)
C6_Witness == pc = "failed" /\ opened # <<>>

EarlyCharts ==
    {"latency_comparison", "resource_usage", "throughput_analysis", "error_metrics",
     "bytes_ingested", "spans_returned", "qps_comparison", "resources_vs_ingestion",
     "resources_vs_qps", "resource_scaling", "timeseries_latency",
     "timeseries_resources", "timeseries_throughput", "timeseries_errors",
     "timeseries_spans_returned", "timeseries_qps"}

C8_EfficiencyExact ==
    \A i \in 1..Len(df) :
        "efficiency" \in DOMAIN df[i] =>
            LET t == df[i].mb_per_sec
                a == df[i].mb_per_sec_actual
                e == df[i].efficiency
            IN  /\ t > 0 => e.n * (a.d * t) = (a.n * 100) * e.d
                /\ t = 0 => e.n = 0

\* C8 as amended: efficiency is mb_per_sec_actual / mb_per_sec * 100 rounded
\* to one decimal place (a multiple of 0.1 at most 0.05 away from the
\* quotient) when the target is greater than 0, and 0 when the target is 0.
C8_EfficiencyRounded ==
    \A i \in 1..Len(df) :
        "efficiency" \in DOMAIN df[i] =>
            LET t == df[i].mb_per_sec
                a == df[i].mb_per_sec_actual
                e == df[i].efficiency
            IN  /\ t > 0 =>
                    /\ 10 % e.d = 0
                    /\ 2 * Abs((e.n * (10 \div e.d)) * (a.d * t) - a.n * 1000)
                          <= a.d * t
                /\ t = 0 => e.n = 0

\* C8 witness: the table has a row whose quotient is no multiple of 0.1 and
\* a row with target 0 and a measured throughput
C8_Witness ==
    /\ \E i \in 1..Len(df) :
          /\ "efficiency" \in DOMAIN df[i]
          /\ df[i].mb_per_sec > 0
          /\ (df[i].mb_per_sec_actual.n * 1000)
                % (df[i].mb_per_sec_actual.d * df[i].mb_per_sec) # 0
    /\ \E i \in 1..Len(df) :
          /\ "efficiency" \in DOMAIN df[i]
          /\ df[i].mb_per_sec = 0
          /\ df[i].mb_per_sec_actual.n > 0

\* the core and millicore columns of the summary table
CpuColumnPairs ==
    {<<"cpu_cores", "cpu_millicores">>,
     <<"max_cpu_cores", "max_cpu_millicores">>,
     <<"min_cpu_cores", "min_cpu_millicores">>,
     <<"sustained_cpu", "sustained_cpu_millicores">>,
     <<"recommended_cpu", "recommended_cpu_millicores">>}

\* the (container, pod, timestamp) keys of the CPU samples of the documents
\* with a load name
CpuKeys(load_name) ==
    UNION {LET samples == ContainerSamples(
                              Get(Get(results[k], "per_container", EmptyDict),
                                  "cpu_cores", <<>>))
           IN  {<<samples[i].container, samples[i].pod, samples[i].timestamp>> :
                   i \in 1..Len(samples)} :
           k \in {k \in 1..Len(results) :
                     Get(results[k], "load_name", "unknown") = load_name}}

\* C9: in every row of the three tables each millicore column is 1000 times
\* its core column, and a per-container row whose key has no CPU sample has
\* cpu_cores = 0 and cpu_millicores = 0.
C9_MillicoresAreCoresTimes1000 ==
    /\ \A i \in 1..Len(df) : \A pair \in CpuColumnPairs :
          df[i][pair[2]] = df[i][pair[1]] * 1000
    /\ \A i \in 1..Len(ts_df) : ts_df[i].cpu_millicores = ts_df[i].cpu_cores * 1000
    /\ \A i \in 1..Len(container_df) :
          LET row == container_df[i]
          IN  /\ row.cpu_millicores = row.cpu_cores * 1000
              /\ <<row.container, row.pod, row.timestamp>> \notin CpuKeys(row.load_name)
                    => row.cpu_cores = 0 /\ row.cpu_millicores = 0

\* C9 witness: all three tables are built; the per-container table has a row
\* made from a memory sample only and a row with a CPU value, the time-series
\* table a row with a CPU value
C9_Witness ==
    /\ built = AllTables
    /\ \E i \in 1..Len(container_df) :
          /\ container_df[i].memory_gb # 0
          /\ <<container_df[i].container, container_df[i].pod,
               container_df[i].timestamp>> \notin CpuKeys(container_df[i].load_name)
    /\ \E i \in 1..Len(container_df) : container_df[i].cpu_cores # 0
    /\ \E i \in 1..Len(ts_df) : ts_df[i].cpu_cores # 0

\* the field of a document each numeric column of a summary row is read from
ColumnSource ==
    [c \in SummaryColumns \ {"load_name"} |->
        CASE c = "mb_per_sec" -> <<"config", "mb_per_sec">>
          [] c = "target_qps" -> <<"config", "target_qps">>
          [] c \in {"mb_per_sec_actual", "gb_per_day", "bytes_per_sec"} ->
                <<"metrics", "throughput", "bytes_per_second">>
          [] c = "spans_per_sec" -> <<"metrics", "throughput", "spans_per_second">>
          [] c = "p50_ms" -> <<"metrics", "query_latencies", "p50_seconds">>
          [] c = "p90_ms" -> <<"metrics", "query_latencies", "p90_seconds">>
          [] c = "p99_ms" -> <<"metrics", "query_latencies", "p99_seconds">>
          [] c = "avg_latency_ms" -> <<"metrics", "query_latencies", "avg_seconds">>
          [] c \in {"cpu_cores", "cpu_millicores"} ->
                <<"metrics", "resources", "avg_cpu_cores">>
          [] c \in {"max_cpu_cores", "max_cpu_millicores"} ->
                <<"metrics", "resources", "max_cpu_cores">>
          [] c \in {"min_cpu_cores", "min_cpu_millicores"} ->
                <<"metrics", "resources", "min_cpu_cores">>
          [] c \in {"sustained_cpu", "sustained_cpu_millicores"} ->
                <<"metrics", "resources", "sustained_cpu_cores">>
          [] c = "avg_memory_gb" -> <<"metrics", "resources", "avg_memory_gb">>
          [] c \in {"memory_gb", "max_memory_gb"} ->
                <<"metrics", "resources", "max_memory_gb">>
          [] c = "min_memory_gb" -> <<"metrics", "resources", "min_memory_gb">>
          [] c = "peak_memory_gb" -> <<"metrics", "resources", "peak_memory_gb">>
          [] c \in {"recommended_cpu", "recommended_cpu_millicores"} ->
                <<"metrics", "resource_recommendations", "cpu_cores">>
          [] c = "recommended_memory_gb" ->
                <<"metrics", "resource_recommendations", "memory_gb">>
          [] c = "error_rate" -> <<"metrics", "errors", "error_rate_percent">>
          [] c = "dropped_spans" ->
                <<"metrics", "errors", "dropped_spans_per_second">>
          [] c = "discarded_spans" ->
                <<"metrics", "errors", "discarded_spans_per_second">>
          [] c = "avg_spans_returned" ->
                <<"metrics", "query_results", "avg_spans_returned">>
          [] c = "actual_qps" -> <<"metrics", "query_results", "actual_qps">>]

\* the document has the field at the end of the path
RECURSIVE HasPath(_, _)
HasPath(d, path) ==
    \/ path = <<>>
    \/ (Head(path) \in DOMAIN d /\ HasPath(d[Head(path)], Tail(path)))

\* row has every column, load_name is that of r or 'unknown', and every column
\* whose field is absent from r is zero
RowWithDefaults(row, r) ==
    /\ SummaryColumns \subseteq DOMAIN row
    /\ row.load_name = (IF "load_name" \in DOMAIN r THEN r.load_name ELSE "unknown")
    /\ \A c \in SummaryColumns \ {"load_name"} :
          ~HasPath(r, ColumnSource[c]) =>
              IF c \in {"mb_per_sec_actual", "gb_per_day"}
              THEN row[c].n = 0
              ELSE row[c] = 0

\* C10: whatever sections and fields a document lacks, results_to_dataframe
\* does not end the run and gives the document a row that has every column,
\* with 0 in each column whose field is absent and 'unknown' for an absent
\* load_name.
C10_AbsentFieldsAreZero ==
    "summary" \in built =>
        /\ pc # "failed"
        /\ \E perm \in Permutations(1..Len(results)) :
              \A i \in 1..Len(df) :
                  /\ RowOfDoc(df[i], results[perm[i]])
                  /\ RowWithDefaults(df[i], results[perm[i]])

\* C10 witness: a table was built from an empty document
C10_Witness ==
    /\ "summary" \in built
    /\ \E i \in 1..Len(results) : DOMAIN results[i] = {}
    /\ \E i \in 1..Len(df) : df[i].load_name = "unknown" /\ df[i].actual_qps = 0

\* the value at the end of a path of keys of a document, or default when a key
\* of the path is absent
RECURSIVE ValueAt(_, _, _)
ValueAt(d, path, default) ==
    IF path = <<>> THEN d
    ELSE IF Head(path) \in DOMAIN d
         THEN ValueAt(d[Head(path)], Tail(path), default)
         ELSE default

\* the summary columns in milliseconds and in millicores
LatencyColumns == {"p50_ms", "p90_ms", "p99_ms", "avg_latency_ms"}

MillicoreColumns == {pair[2] : pair \in CpuColumnPairs}

\* row holds the scalar values of document r: copied, or converted to MB/s,
\* GB/day, milliseconds and millicores
RowReproduces(row, r) ==
    LET bytes == ValueAt(r, <<"metrics", "throughput", "bytes_per_second">>, 0)
        mb == row.mb_per_sec_actual
        gb == row.gb_per_day
    IN  /\ row.load_name = ValueAt(r, <<"load_name">>, "unknown")
        /\ row.mb_per_sec = ValueAt(r, <<"config", "mb_per_sec">>, 0)
        /\ mb.d > 0 /\ mb.n * (1024 * 1024) = bytes * mb.d
        /\ gb.d > 0 /\ gb.n * mb.d * 1024 = mb.n * 86400 * gb.d
        /\ \A c \in SummaryColumns \ {"load_name", "mb_per_sec_actual", "gb_per_day"} :
              row[c] = ValueAt(r, ColumnSource[c], 0)
                          * (IF c \in LatencyColumns \cup MillicoreColumns
                             THEN 1000 ELSE 1)

\* C11: each summary row reproduces the scalar values of its document
\* unchanged, except that mb_per_sec_actual is bytes_per_second / (1024*1024),
\* gb_per_day is mb_per_sec_actual * 86400 / 1024, the latency columns are the
\* seconds values times 1000 (and the millicore columns the core values times
\* 1000), and mb_per_sec is the configured target.
C11_RowReproducesDocument ==
    "summary" \in built =>
        \E perm \in Permutations(1..Len(results)) :
            \A i \in 1..Len(df) : RowReproduces(df[i], results[perm[i]])

\* C11 witness: the table holds the row of a document that has every field
C11_Witness ==
    /\ "summary" \in built
    /\ \E k \in 1..Len(results) :
          /\ "config" \in DOMAIN results[k]
          /\ "metrics" \in DOMAIN results[k]
          /\ results[k].config = FullConfig
          /\ results[k].metrics = FullMetrics
    /\ \E i \in 1..Len(df) :
          /\ df[i].mb_per_sec = 3
          /\ df[i].mb_per_sec_actual = [n |-> 1, d |-> 1]
          /\ df[i].gb_per_day = [n |-> 675, d |-> 8]
          /\ df[i].p90_ms = 2000
          /\ df[i].peak_memory_gb = 7

\* the document has no time-series block, an empty one, or one without CPU
\* samples
LacksCpuSeries(r) ==
    \/ "timeseries" \notin DOMAIN r
    \/ "cpu_cores" \notin DOMAIN r.timeseries
    \/ r.timeseries.cpu_cores = <<>>

\* the distinct timestamps of the CPU series of a document
CpuStamps(r) ==
    IF LacksCpuSeries(r) THEN {}
    ELSE {r.timeseries.cpu_cores[i].timestamp :
             i \in 1..Len(r.timeseries.cpu_cores)}

\* the number of distinct CPU timestamps of the documents rs, added up
RECURSIVE CpuStampCount(_)
CpuStampCount(rs) ==
    IF rs = <<>> THEN 0
    ELSE Cardinality(CpuStamps(Head(rs))) + CpuStampCount(Tail(rs))

\* the load name a document's rows carry
LoadOf(r) == IF "load_name" \in DOMAIN r THEN r.load_name ELSE "unknown"

\* C12: a document without a time-series block, with an empty one, or without
\* CPU samples in it contributes no row to the time-series table, whatever its
\* other series hold (the table has as many rows as the other documents have
\* distinct CPU timestamps, and none with the load name of such a document
\* unless another document carries the name), and it still has its row in the
\* summary table.
C12_NoCpuSeriesNoRows ==
    "timeseries" \in built =>
        /\ Len(ts_df) = CpuStampCount(results)
        /\ \A k \in 1..Len(results) :
              (\A m \in 1..Len(results) :
                  LoadOf(results[m]) = LoadOf(results[k]) => LacksCpuSeries(results[m]))
                  => \A i \in 1..Len(ts_df) : ts_df[i].load_name # LoadOf(results[k])
        /\ Len(df) = Len(results)
        /\ \E perm \in Permutations(1..Len(results)) :
              \A i \in 1..Len(df) : RowOfDoc(df[i], results[perm[i]])

\* C12 witness: a document whose time-series block has memory samples and no
\* CPU series was processed together with a document that has CPU samples
C12_Witness ==
    /\ "timeseries" \in built
    /\ Len(ts_df) > 0
    /\ Len(df) = 2
    /\ \E k \in 1..Len(results) :
          /\ "timeseries" \in DOMAIN results[k]
          /\ "memory_gb" \in DOMAIN results[k].timeseries
          /\ "cpu_cores" \notin DOMAIN results[k].timeseries
          /\ \A i \in 1..Len(ts_df) : ts_df[i].load_name # LoadOf(results[k])

\* the series each metric column of a time-series row is read from, and the
\* factor applied to its value
TsColumnSeries ==
    [c \in {"cpu_cores", "cpu_millicores", "memory_gb", "spans_per_sec",
            "bytes_per_sec", "p50_ms", "p90_ms", "p99_ms", "query_failures",
            "dropped_spans", "discarded_spans", "avg_spans_returned", "qps"} |->
        CASE c = "cpu_cores" -> <<"cpu_cores", 1>>
          [] c = "cpu_millicores" -> <<"cpu_cores", 1000>>
          [] c = "memory_gb" -> <<"memory_gb", 1>>
          [] c = "spans_per_sec" -> <<"spans_per_second", 1>>
          [] c = "bytes_per_sec" -> <<"bytes_per_second", 1>>
          [] c = "p50_ms" -> <<"p50_latency_seconds", 1000>>
          [] c = "p90_ms" -> <<"p90_latency_seconds", 1000>>
          [] c = "p99_ms" -> <<"p99_latency_seconds", 1000>>
          [] c = "query_failures" -> <<"query_failures_per_second", 1>>
          [] c = "dropped_spans" -> <<"dropped_spans_per_second", 1>>
          [] c = "discarded_spans" -> <<"discarded_spans_per_second", 1>>
          [] c = "avg_spans_returned" -> <<"avg_spans_returned", 1>>
          [] c = "qps" -> <<"qps", 1>>]

\* the value a series of samples has at a timestamp (that of its last sample
\* with the timestamp), or 0 when it has no sample there
SampleAt(series, ts) ==
    LET at == {i \in 1..Len(series) : series[i].timestamp = ts}
    IN  IF at = {} THEN 0
        ELSE series[CHOOSE i \in at : \A j \in at : j <= i].value

\* the value the time-series column c of document r has at timestamp ts
TsValue(r, c, ts) ==
    LET metric == TsColumnSeries[c][1]
    IN  (IF metric \in DOMAIN r.timeseries
         THEN SampleAt(r.timeseries[metric], ts) ELSE 0) * TsColumnSeries[c][2]

\* row is the row of document r at timestamp ts
RowAtStamp(row, r, ts) ==
    /\ row.load_name = LoadOf(r)
    /\ row.timestamp = ts
    /\ row.target_qps = ValueAt(r, <<"config", "target_qps">>, 0)
    /\ \A c \in DOMAIN TsColumnSeries : row[c] = TsValue(r, c, ts)

\* the (document, timestamp) pairs of the CPU series of the loaded documents
CpuAxis ==
    UNION {{<<k, ts>> : ts \in CpuStamps(results[k])} : k \in 1..Len(results)}

\* C13: the rows of the time-series table are, document by document, one row
\* per distinct timestamp of the document's CPU series, and a row holds for
\* each metric the value of the document's series at exactly that timestamp,
\* or 0 when the series has no sample there.
C13_CpuTimestampsAreTheAxis ==
    "timeseries" \in built =>
        /\ Len(ts_df) = Cardinality(CpuAxis)
        /\ \A p \in CpuAxis :
              Cardinality({i \in 1..Len(ts_df) :
                              RowAtStamp(ts_df[i], results[p[1]], p[2])})
                = Cardinality({q \in CpuAxis :
                                  /\ LoadOf(results[q[1]]) = LoadOf(results[p[1]])
                                  /\ q[2] = p[2]
                                  /\ ValueAt(results[q[1]], <<"config", "target_qps">>, 0)
                                        = ValueAt(results[p[1]], <<"config", "target_qps">>, 0)
                                  /\ \A c \in DOMAIN TsColumnSeries :
                                        TsValue(results[q[1]], c, q[2])
                                           = TsValue(results[p[1]], c, p[2])})

\* C13 witness: the table has the rows of a document whose memory series has a
\* sample at one CPU timestamp and none at the other, and whose qps series
\* has a sample at the other only
C13_Witness ==
    /\ "timeseries" \in built
    /\ \E k \in 1..Len(results) : results[k] = DocLarge
    /\ \E i, j \in 1..Len(ts_df) :
          /\ ts_df[i].load_name = "large" /\ ts_df[j].load_name = "large"
          /\ ts_df[i].timestamp = 1000 /\ ts_df[i].memory_gb = 0 /\ ts_df[i].qps = 6
          /\ ts_df[j].timestamp = 1060 /\ ts_df[j].memory_gb = 4 /\ ts_df[j].qps = 0
    /\ \A i \in 1..Len(ts_df) : ts_df[i].timestamp # 1090

\* the timestamps that occur in at least one series of the time-series block
\* of a document
AnyStamps(r) ==
    IF "timeseries" \notin DOMAIN r THEN {}
    ELSE UNION {{r.timeseries[m][i].timestamp : i \in 1..Len(r.timeseries[m])} :
                   m \in DOMAIN r.timeseries}

\* the (container, pod, timestamp) keys of the samples of one series of the
\* per-container block of a document
SeriesKeys(r, metric) ==
    IF "per_container" \notin DOMAIN r \/ metric \notin DOMAIN r.per_container
    THEN {}
    ELSE LET samples == ContainerSamples(r.per_container[metric])
         IN  {<<samples[i].container, samples[i].pod, samples[i].timestamp>> :
                 i \in 1..Len(samples)}

\* the per-container table has a row of the load with the key
HasContainerRow(load_name, key) ==
    \E i \in 1..Len(container_df) :
        /\ container_df[i].load_name = load_name
        /\ <<container_df[i].container, container_df[i].pod,
             container_df[i].timestamp>> = key

\* C14 as claimed: every timestamp that occurs in at least one metric series
\* of a document yields a row, in the time-series table as well as in the
\* per-container table.
C14_EveryTimestampYieldsRow ==
    /\ "timeseries" \in built =>
          \A k \in 1..Len(results) : \A ts \in AnyStamps(results[k]) :
              \E i \in 1..Len(ts_df) :
                  /\ ts_df[i].load_name = LoadOf(results[k])
                  /\ ts_df[i].timestamp = ts
    /\ "per_container" \in built =>
          \A k \in 1..Len(results) :
              \A key \in SeriesKeys(results[k], "cpu_cores")
                            \cup SeriesKeys(results[k], "memory_gb") :
                  HasContainerRow(LoadOf(results[k]), key)

\* C14 as amended: in the time-series table every timestamp of a document's
\* CPU series yields a row, in which a metric without a sample at the
\* timestamp is 0, and the table has rows for no other timestamps, so a
\* timestamp that occurs only in other series yields no row; in the
\* per-container table every (container, pod, timestamp) that occurs in the
\* CPU series or in the memory series of a document yields a row.
C14_CpuAxisAndContainerUnion ==
    /\ "timeseries" \in built =>
          /\ \A k \in 1..Len(results) : \A ts \in CpuStamps(results[k]) :
                \E i \in 1..Len(ts_df) : RowAtStamp(ts_df[i], results[k], ts)
          /\ \A i \in 1..Len(ts_df) :
                \E k \in 1..Len(results) :
                    /\ ts_df[i].load_name = LoadOf(results[k])
                    /\ ts_df[i].timestamp \in CpuStamps(results[k])
    /\ "per_container" \in built =>
          \A k \in 1..Len(results) :
              \A key \in SeriesKeys(results[k], "cpu_cores")
                            \cup SeriesKeys(results[k], "memory_gb") :
                  HasContainerRow(LoadOf(results[k]), key)

\* C14 witness: all tables are built from a document whose memory series has
\* a timestamp its CPU series lacks, which has no row, and from a document
\* whose per-container block has a key in the memory series only, which has
\* a row
C14_Witness ==
    /\ built = AllTables
    /\ \E k \in 1..Len(results) :
          \E ts \in AnyStamps(results[k]) \ CpuStamps(results[k]) :
              /\ CpuStamps(results[k]) # {}
              /\ \A i \in 1..Len(ts_df) : ts_df[i].timestamp # ts
    /\ \E k \in 1..Len(results) :
          \E key \in SeriesKeys(results[k], "memory_gb")
                        \ SeriesKeys(results[k], "cpu_cores") :
              /\ SeriesKeys(results[k], "cpu_cores") # {}
              /\ HasContainerRow(LoadOf(results[k]), key)

\* the least timestamp of the rows of the time-series table with a load name
LoadAnchor(load_name) ==
    LET stamps == {ts_df[j].timestamp :
                      j \in {m \in 1..Len(ts_df) : ts_df[m].load_name = load_name}}
    IN  CHOOSE x \in stamps : \A y \in stamps : x <= y

\* C15: in the time-series table, for the rows sharing a load name, from
\* whichever documents they come, minute is
\* floor((timestamp - least timestamp of the group) / 60) + 1: a positive
\* integer, non-decreasing as the timestamp grows within the group, and 1 on
\* the rows at the least timestamp of the group.
C15_MinutePerLoad ==
    /\ \A i \in 1..Len(ts_df) :
          LET anchor == LoadAnchor(ts_df[i].load_name)
          IN  /\ ts_df[i].minute \in Nat \ {0}
              /\ 60 * (ts_df[i].minute - 1) <= ts_df[i].timestamp - anchor
              /\ ts_df[i].timestamp - anchor < 60 * ts_df[i].minute
              /\ ts_df[i].timestamp = anchor => ts_df[i].minute = 1
    /\ \A i, j \in 1..Len(ts_df) :
          (/\ ts_df[i].load_name = ts_df[j].load_name
           /\ ts_df[i].timestamp <= ts_df[j].timestamp)
              => ts_df[i].minute <= ts_df[j].minute

\* C15 witness: the rows of two documents of one load are in the table, and
\* the first row of one document is not at minute 1, because the other
\* document begins a minute earlier
C15_Witness ==
    \E i, j \in 1..Len(ts_df) :
        /\ ts_df[i].load_name = "small" /\ ts_df[j].load_name = "small"
        /\ ts_df[i].timestamp = 950 /\ ts_df[i].minute = 1
        /\ ts_df[j].timestamp = 1010 /\ ts_df[j].minute = 2
        /\ \E k \in 1..Len(results) :
              /\ CpuStamps(results[k]) # {}
              /\ 950 \notin CpuStamps(results[k])

\* C16 as claimed: whatever documents are loaded, no two rows of the
\* time-series table have the same (load_name, timestamp).
C16_OneRowPerLoadTimestamp ==
    \A i, j \in 1..Len(ts_df) :
        i # j => <<ts_df[i].load_name, ts_df[i].timestamp>>
                    # <<ts_df[j].load_name, ts_df[j].timestamp>>

\* C17 as claimed: whatever documents are loaded, no two rows of the
\* per-container table have the same (load_name, container, pod, timestamp).
C17_OneRowPerContainerKey ==
    \A i, j \in 1..Len(container_df) :
        i # j => KeyOf(container_df[i]) # KeyOf(container_df[j])

\* the value the samples of one series of the per-container block of a
\* document have at a key (that of the last sample with the key), or 0 when
\* the series has no sample with the key
ContainerSampleAt(r, metric, key) ==
    IF key \notin SeriesKeys(r, metric) THEN 0
    ELSE LET samples == ContainerSamples(r.per_container[metric])
             at == {i \in 1..Len(samples) :
                       <<samples[i].container, samples[i].pod,
                         samples[i].timestamp>> = key}
         IN  samples[CHOOSE i \in at : \A j \in at : j <= i].value

\* row is the row of document r for the key: both metrics as the document's
\* series give them, 0 for the metric without a sample
RowAtKey(row, r, key) ==
    /\ row.load_name = LoadOf(r)
    /\ <<row.container, row.pod, row.timestamp>> = key
    /\ row.cpu_cores = ContainerSampleAt(r, "cpu_cores", key)
    /\ row.cpu_millicores = ContainerSampleAt(r, "cpu_cores", key) * 1000
    /\ row.memory_gb = ContainerSampleAt(r, "memory_gb", key)

\* the (document, key) pairs of the CPU and memory series of the loaded
\* documents
ContainerAxis ==
    UNION {{<<k, key>> : key \in SeriesKeys(results[k], "cpu_cores")
                                   \cup SeriesKeys(results[k], "memory_gb")} :
              k \in 1..Len(results)}

\* C18: the rows of the per-container table are, document by document, one
\* row per key of the union of the keys of the CPU series and of the memory
\* series; a row holds the CPU value and the memory value the series have for
\* its key, a key of one series only has 0 for the other metric, and a key of
\* both series keeps the value of each.
C18_ContainerKeysAreTheUnion ==
    "per_container" \in built =>
        /\ Len(container_df) = Cardinality(ContainerAxis)
        /\ \A p \in ContainerAxis :
              Cardinality({i \in 1..Len(container_df) :
                              RowAtKey(container_df[i], results[p[1]], p[2])})
                = Cardinality({q \in ContainerAxis :
                                  /\ LoadOf(results[q[1]]) = LoadOf(results[p[1]])
                                  /\ q[2] = p[2]
                                  /\ \A m \in {"cpu_cores", "memory_gb"} :
                                        ContainerSampleAt(results[q[1]], m, q[2])
                                          = ContainerSampleAt(results[p[1]], m, p[2])})

\* C18 witness: the table has a row with a CPU value and a memory value, a
\* row of a key of the CPU series only and a row of a key of the memory
\* series only, all of one document
C18_Witness ==
    /\ "per_container" \in built
    /\ \E k \in 1..Len(results) :
          LET both == SeriesKeys(results[k], "cpu_cores")
                         \cap SeriesKeys(results[k], "memory_gb")
              cpu_only == SeriesKeys(results[k], "cpu_cores")
                             \ SeriesKeys(results[k], "memory_gb")
              mem_only == SeriesKeys(results[k], "memory_gb")
                             \ SeriesKeys(results[k], "cpu_cores")
          IN  /\ \E key \in both : \E i \in 1..Len(container_df) :
                    /\ RowAtKey(container_df[i], results[k], key)
                    /\ container_df[i].cpu_cores # 0
                    /\ container_df[i].memory_gb # 0
              /\ \E key \in cpu_only : \E i \in 1..Len(container_df) :
                    /\ RowAtKey(container_df[i], results[k], key)
                    /\ container_df[i].cpu_cores # 0
                    /\ container_df[i].memory_gb = 0
              /\ \E key \in mem_only : \E i \in 1..Len(container_df) :
                    /\ RowAtKey(container_df[i], results[k], key)
                    /\ container_df[i].cpu_cores = 0
                    /\ container_df[i].memory_gb # 0

\* the least timestamp of the rows of the per-container table with a load
\* name and a container, of whichever pod
ContainerAnchor(load_name, container) ==
    LET stamps == {container_df[j].timestamp :
                      j \in {m \in 1..Len(container_df) :
                                /\ container_df[m].load_name = load_name
                                /\ container_df[m].container = container}}
    IN  CHOOSE x \in stamps : \A y \in stamps : x <= y

\* C19: in the per-container table minute is
\* floor((timestamp - least timestamp of the rows of the same load and
\* container, all pods together) / 60) + 1, so every (load, container) group
\* has a row with minute 1, whatever the timestamps of the other containers
\* of the load.
C19_MinutePerLoadAndContainer ==
    \A i \in 1..Len(container_df) :
        LET row == container_df[i]
            anchor == ContainerAnchor(row.load_name, row.container)
        IN  /\ row.minute \in Nat \ {0}
            /\ 60 * (row.minute - 1) <= row.timestamp - anchor
            /\ row.timestamp - anchor < 60 * row.minute
            /\ \E j \in 1..Len(container_df) :
                  /\ container_df[j].load_name = row.load_name
                  /\ container_df[j].container = row.container
                  /\ container_df[j].minute = 1

\* C19 witness: a container has rows of two pods, and the first row of one
\* pod is not at minute 1 because the other pod begins earlier; another
\* container of the same load has its minute 1 at a later timestamp
C19_Witness ==
    \E i, j, k \in 1..Len(container_df) :
        /\ container_df[i].load_name = container_df[j].load_name
        /\ container_df[i].load_name = container_df[k].load_name
        /\ container_df[i].container = "ingester" /\ container_df[i].pod = "pod-1"
        /\ container_df[i].timestamp = 940 /\ container_df[i].minute = 1
        /\ container_df[j].container = "ingester" /\ container_df[j].pod = "pod-0"
        /\ container_df[j].timestamp = 1060 /\ container_df[j].minute = 3
        /\ \A m \in 1..Len(container_df) :
              container_df[m].pod = "pod-0" => container_df[m].timestamp >= 1060
        /\ container_df[k].container = "distributor"
        /\ container_df[k].timestamp = 1100 /\ container_df[k].minute = 1

\* the sort key of a row of the time-series table and of the per-container
\* table, names by their rank in the order of strings
TsSortKey(row) == <<StrRank(row.load_name), row.timestamp>>

ContainerSortKey(row) ==
    <<StrRank(row.load_name), StrRank(row.container), row.timestamp>>

\* the rows of a list with a sort key, in the order of the list, without
\* their minute column
TsRowsWithKey(rows, key) ==
    LET Test(row) == TsSortKey(row) = key
        kept == SelectSeq(rows, Test)
    IN  [i \in 1..Len(kept) |-> Remove(kept[i], {"minute"})]

ContainerRowsWithKey(rows, key) ==
    LET Test(row) == ContainerSortKey(row) = key
        kept == SelectSeq(rows, Test)
    IN  [i \in 1..Len(kept) |-> Remove(kept[i], {"minute"})]

\* C20: the rows of the time-series table are in non-decreasing
\* lexicographic order of (load_name, timestamp) and those of the
\* per-container table in non-decreasing lexicographic order of (load_name,
\* container, timestamp); rows equal on these keys are in the order in which
\* the loops over the documents appended them.
C20_TablesSortedStably ==
    /\ \A i, j \in 1..Len(ts_df) :
          i < j => ~LexLess(TsSortKey(ts_df[j]), TsSortKey(ts_df[i]))
    /\ \A i \in 1..Len(ts_df) :
          TsRowsWithKey(ts_df, TsSortKey(ts_df[i]))
             = TsRowsWithKey(TimeseriesRows(results), TsSortKey(ts_df[i]))
    /\ \A i, j \in 1..Len(container_df) :
          i < j => ~LexLess(ContainerSortKey(container_df[j]),
                            ContainerSortKey(container_df[i]))
    /\ \A i \in 1..Len(container_df) :
          ContainerRowsWithKey(container_df, ContainerSortKey(container_df[i]))
             = ContainerRowsWithKey(ContainerRows(results),
                                    ContainerSortKey(container_df[i]))

\* C20 witness: the time-series table has two different rows with the same
\* load name and timestamp, the per-container table two rows of different
\* pods with the same load name, container and timestamp, and both tables
\* have rows the sort has moved
C20_Witness ==
    /\ built = AllTables
    /\ \E i, j \in 1..Len(ts_df) :
          /\ i < j
          /\ TsSortKey(ts_df[i]) = TsSortKey(ts_df[j])
          /\ ts_df[i].cpu_cores # ts_df[j].cpu_cores
    /\ \E i, j \in 1..Len(container_df) :
          /\ i < j
          /\ ContainerSortKey(container_df[i]) = ContainerSortKey(container_df[j])
          /\ container_df[i].pod # container_df[j].pod
    /\ \E i \in 1..Len(ts_df) :
          Remove(ts_df[i], {"minute"}) # TimeseriesRows(results)[i]
    /\ \E i \in 1..Len(container_df) :
          Remove(container_df[i], {"minute"}) # ContainerRows(results)[i]

\* no loaded document has a "timeseries" or a "per_container" block
NoOptionalBlocks(rs) ==
    \A i \in 1..Len(rs) : {"timeseries", "per_container"} \cap DOMAIN rs[i] = {}

\* the number of times the notice text was printed
Printed(text) == Cardinality({i \in 1..Len(notices) : notices[i].text = text})

\* the stems of the artifacts written so far
Stems == {outputs[i].stem : i \in 1..Len(outputs)}

\* C21: a run over a non-empty collection in which no document has a
\* time-series or per-container block never fails after loading and ends with
\* status 0: both optional tables are empty, the time-series charts, the
\* time-series dashboard, the per-container charts and the per-container
\* report are each skipped with one notice and no error, and the six basic
\* summary charts, the summary dashboard and the summary table are written.
C21_OptionalBlocksAbsent ==
    (results # <<>> /\ NoOptionalBlocks(results)) =>
        /\ pc # "failed" /\ errors = <<>>
        /\ pc = "done" =>
              /\ exit_status = 0
              /\ ts_df = <<>> /\ container_df = <<>>
              /\ Printed("No time-series data found, skipping time-series charts") = 1
              /\ Printed("No time-series data found, skipping time-series dashboard") = 1
              /\ Printed("No per-container data found, skipping per-container charts") = 1
              /\ Printed("No per-container data found, skipping per-container report") = 1
              /\ Stems \cap {"timeseries_latency", "timeseries_resources",
                             "timeseries_throughput", "timeseries_errors",
                             "timeseries_spans_returned", "timeseries_qps",
                             "per_container_cpu", "per_container_memory",
                             "timeseries-dashboard", "per-container-report"} = {}
              /\ {"latency_comparison", "resource_usage", "throughput_analysis",
                  "error_metrics", "bytes_ingested", "spans_returned",
                  "dashboard", "summary"} \subseteq Stems

\* C21 witness: a run over two documents without optional blocks has ended
C21_Witness ==
    /\ pc = "done"
    /\ Len(results) = 2
    /\ NoOptionalBlocks(results)
    /\ Len(notices) >= 4

\* the documents rs have pairwise distinct target throughput
DistinctTargets(rs) ==
    \A i, j \in 1..Len(rs) :
        i # j => Get2(rs[i], "config", "mb_per_sec") # Get2(rs[j], "config", "mb_per_sec")

\* C22: for documents with pairwise distinct target throughput,
\* results_to_dataframe returns the same rows in the same order for every
\* ordering of the collection: each reordering of the loaded documents can
\* give the table that was built and no other.
C22_TableIndependentOfInputOrder ==
    ("summary" \in built /\ pc = "timeseries" /\ DistinctTargets(results)) =>
        \A perm \in Permutations(1..Len(results)) :
            results_to_dataframe(Reorder(results, perm)) = {df}

\* C22 witness: a table was built from three documents with distinct targets
\* that were not supplied in ascending order
C22_Witness ==
    /\ "summary" \in built /\ pc = "timeseries"
    /\ Len(results) = 3
    /\ DistinctTargets(results)
    /\ Get2(results[1], "config", "mb_per_sec") > Get2(results[2], "config", "mb_per_sec")

\* the steps of main in the order of its text; the six generators are the
\* steps from "static_charts" to "container_report"
PipelineOrder ==
    <<"start", "check_dir", "metadata", "load", "summary", "timeseries",
      "static_charts", "timeseries_charts", "dashboard", "timeseries_dashboard",
      "summary_table", "container_report", "done">>

PipelineRank(p) == CHOOSE i \in 1..Len(PipelineOrder) : PipelineOrder[i] = p

\* the process has ended exactly when main is in one of the two terminal
\* states, with status 0 when completed and 1 when failed
TerminalStates ==
    /\ pc \in {PipelineOrder[i] : i \in 1..Len(PipelineOrder)} \cup {"failed"}
    /\ (pc = "done") = (exit_status = 0)
    /\ (pc = "failed") = (exit_status = 1)
    /\ (pc \notin {"done", "failed"}) = (exit_status = -1)

\* a step is taken by a running process only, and either moves main to the
\* next step of the fixed order or is a fatal exit that prints an error
PipelineStep ==
    /\ pc \notin {"done", "failed"}
    /\ \/ /\ pc' = "failed"
          /\ Len(errors') = Len(errors) + 1
          /\ outputs' = outputs
       \/ /\ pc' # "failed"
          /\ PipelineRank(pc') = PipelineRank(pc) + 1
          /\ errors' = errors

\* C23: a run ends in exactly one of two terminal states, completed (status 0)
\* or failed (status 1).  Every step moves main one step forward in the fixed
\* order static charts, time-series charts, summary dashboard, time-series
\* dashboard, summary table, per-container report, so that "done" is entered
\* from the per-container report only and within twelve steps, or is a fatal
\* exit; no step is taken from a terminal state.
C23_CompletedOrFailed == []TerminalStates /\ [][PipelineStep]_vars

\* C23 witness: a completed run in which every generator wrote its artifacts
C23_Witness ==
    /\ pc = "done"
    /\ exit_status = 0
    /\ {"latency_comparison", "timeseries_latency", "per_container_cpu", "dashboard",
        "timeseries-dashboard", "summary", "per-container-report"} \subseteq Stems

\* the *.json files present in raw/
JsonFilesPresent ==
    {n \in RawNames : raw_files[n].kind # "absent" /\ fnmatch(n, "*.json")}

\* s lists the names of S, each once, in ascending order of file name
ListsOnceSorted(s, S) ==
    /\ {s[i] : i \in 1..Len(s)} = S
    /\ \A i, j \in 1..Len(s) : i < j => SpellLess(Spelling[s[i]], Spelling[s[j]])

\* load_test_results has run its loop over the files of raw/: it returned, or
\* it ended the run because no document was loaded
LoadLoopDone ==
    \/ pc \notin PreLoad \cup {"failed"}
    \/ /\ pc = "failed"
       /\ errors[Len(errors)].text = "No valid JSON files found"

\* C24: once load_test_results has run its loop over raw/, the files it
\* opened are, with a filter set, exactly the *.json files of raw/ whose name
\* matches the pattern and, with no filter, all *.json files of raw/; each is
\* opened once, in sorted order of file name; a warning is printed for the
\* opened files that do not parse and for no other file.
C24_OnlyMatchingFilesOpened ==
    LoadLoopDone =>
        /\ ListsOnceSorted(opened,
                           IF FILE_FILTER = "" THEN JsonFilesPresent
                           ELSE {n \in JsonFilesPresent : fnmatch(n, FILE_FILTER)})
        /\ ListsOnceSorted(warnings,
                           {opened[i] : i \in 1..Len(opened)}
                           \cap {n \in RawNames : raw_files[n].kind = "bad"})

\* C24 witness: under a filter, a well-formed matching file was loaded while a
\* malformed file that does not match was left alone
C24_Witness ==
    /\ LoadLoopDone
    /\ FILE_FILTER = "*-i.json"
    /\ raw_files["b-q.json"].kind = "bad"
    /\ raw_files["a-i.json"].kind = "ok"
    /\ raw_files["c-i.json"].kind = "bad"
    /\ opened = <<"a-i.json", "c-i.json">>
    /\ warnings = <<"c-i.json">>

\* the run has ended with the error of load_test_results for an empty list
ZeroDocumentsFailure ==
    /\ pc = "failed"
    /\ errors[Len(errors)].text = "No valid JSON files found"

\* the pattern the last error message names, "" when it names none
PatternNamed == errors[Len(errors)].detail

\* raw/ holds no *.json file that parses
NoValidFileAtAll == \A n \in JsonFilesPresent : raw_files[n].kind # "ok"

\* C25 as stated: the zero-documents error names the filter pattern exactly
\* when a filter is set and no file matched it, and names no pattern when raw/
\* holds no valid file at all.
C25_PatternNamedIffNothingMatched ==
    ZeroDocumentsFailure =>
        /\ (PatternNamed # "") = (FILE_FILTER # "" /\ opened = <<>>)
        /\ NoValidFileAtAll => PatternNamed = ""

\* C25 amended: the zero-documents error names the filter pattern exactly when
\* a filter is set, and then it names that pattern, whether no file matched,
\* the matching files were all malformed or raw/ holds no valid file at all.
C25_PatternNamedIffFilterSet ==
    ZeroDocumentsFailure => PatternNamed = FILE_FILTER

\* C25 witness: under a filter, files matched and were opened but none parsed,
\* and raw/ holds no valid file at all; the error names the pattern
C25_Witness ==
    /\ ZeroDocumentsFailure
    /\ FILE_FILTER = "*-i.json"
    /\ opened # <<>>
    /\ NoValidFileAtAll
    /\ PatternNamed = "*-i.json"

\* generate_summary_table has added the efficiency columns and written the rows
SummaryWritten == pc \in {"container_report", "done"}

\* C26 as stated: for a row with target QPS zero no numeric QPS efficiency is
\* computed (in particular not the number 0), while the throughput efficiency
\* of a row with target throughput zero is the number 0.
C26_QpsEfficiencyUndefined ==
    SummaryWritten =>
        \A i \in 1..Len(df) :
            /\ df[i].target_qps = 0 => df[i].qps_efficiency # RatZero
            /\ df[i].mb_per_sec = 0 => df[i].efficiency = RatZero

\* C26 amended: for a row with target QPS zero the QPS efficiency is computed
\* as the number 0, as the throughput efficiency is for target throughput
\* zero; they differ in the rendering only: the Actual QPS cell gets no class
\* and the Target QPS cell shows 'N/A', while the efficiency cell shows the
\* value 0 with the class 'metric-bad'.  With a positive target QPS the class
\* of the Actual QPS cell is the class of the QPS efficiency.
C26_QpsEfficiencyZeroNotRendered ==
    SummaryWritten =>
        /\ Len(summary_html) = Len(df)
        /\ \A i \in 1..Len(df) :
              /\ df[i].target_qps = 0 =>
                    /\ df[i].qps_efficiency = RatZero
                    /\ summary_html[i].qps_eff_class = ""
                    /\ summary_html[i].target_qps_str = "N/A"
              /\ df[i].target_qps > 0 =>
                    /\ summary_html[i].qps_eff_class = MetricClass(df[i].qps_efficiency)
                    /\ summary_html[i].target_qps_str = df[i].target_qps
              /\ df[i].mb_per_sec = 0 =>
                    /\ df[i].efficiency = RatZero
                    /\ summary_html[i].efficiency = RatZero
                    /\ summary_html[i].eff_class = "metric-bad"

\* C26 witness: the summary was written for a row whose targets are both zero
\* although it measured queries and throughput
C26_Witness ==
    /\ SummaryWritten
    /\ \E i \in 1..Len(df) :
          /\ df[i].target_qps = 0 /\ df[i].actual_qps > 0
          /\ df[i].mb_per_sec = 0 /\ df[i].bytes_per_sec > 0
          /\ summary_html[i].target_qps_str = "N/A"

\* the per-container report has been written
ReportWritten == pc = "done" /\ container_report # <<>>

\* the (load, pod) group of a row of the report
GroupOf(tr) == <<tr.load_name, tr.pod>>

\* row i of the report is the last container row of its (load, pod) group
LastOfGroup(i) ==
    /\ container_report[i].kind = "container"
    /\ \A j \in (i + 1)..Len(container_report) :
          (/\ container_report[j].kind = "container"
           /\ \A k \in (i + 1)..(j - 1) : container_report[k].kind # "container")
          => GroupOf(container_report[j]) # GroupOf(container_report[i])

\* C27: in the per-container report every (load, pod) group of container rows
\* is followed by exactly one 'Pod Total' row of that pod, right after the last
\* container row of the group and before any row of the next group, also when
\* the next group belongs to another load; and a 'Pod Total' row stands nowhere
\* else.
C27_PodTotalAfterEveryGroup ==
    ReportWritten =>
        \A i \in 1..Len(container_report) :
            /\ LastOfGroup(i) =>
                  /\ i < Len(container_report)
                  /\ container_report[i + 1].kind = "pod_total"
                  /\ GroupOf(container_report[i + 1]) = GroupOf(container_report[i])
            /\ container_report[i].kind = "pod_total" =>
                  /\ i > 1
                  /\ LastOfGroup(i - 1)
                  /\ GroupOf(container_report[i - 1]) = GroupOf(container_report[i])

\* the report-*.json files present in results_dir
ReportsPresent ==
    {n \in ReportDirNames : report_files[n].kind # "absent" /\ fnmatch(n, "report-*.json")}

\* the report file whose name sorts last
LastReport ==
    CHOOSE n \in ReportsPresent :
        \A m \in ReportsPresent \ {n} : SpellLess(Spelling[m], Spelling[n])

\* load_report_metadata and get_report_name have returned
MetadataRead ==
    /\ pc \notin {"start", "check_dir", "metadata"}
    /\ pc = "failed" =>
          errors[Len(errors)].text \in {"Raw results directory not found",
                                        "No valid JSON files found"}

\* the "Could not parse report file" warnings printed so far
ReportWarningsPrinted ==
    SelectSeq(notices, LAMBDA n : n.text = "Warning: Could not parse report file")

\* C28: once the metadata step has run, the only report file opened is the
\* report-*.json file whose name sorts last, if there is one, and the display
\* name is the one get_report_name derives from that file's metadata.  If
\* there is no report file, or the last one cannot be read or parsed, the name
\* is 'Tempo Performance Test', no older file is opened, at most one warning is
\* printed (exactly one, and only, in the second case), and the run goes on
\* to load the raw results: the step adds no error and is never fatal.
C28_NameFromNewestReportOnly ==
    MetadataRead =>
        /\ report_opened = IF ReportsPresent = {} THEN <<>> ELSE <<LastReport>>
        /\ (ReportsPresent # {} /\ report_files[LastReport].kind = "ok") =>
              /\ report_name =
                     get_report_name(Get(report_files[LastReport].doc,
                                         "report_metadata", EmptyDict))
              /\ ReportWarningsPrinted = <<>>
        /\ ReportsPresent = {} =>
              /\ report_name = "Tempo Performance Test"
              /\ ReportWarningsPrinted = <<>>
        /\ (ReportsPresent # {} /\ report_files[LastReport].kind # "ok") =>
              /\ report_name = "Tempo Performance Test"
              /\ Len(ReportWarningsPrinted) = 1
        /\ \A i \in 1..Len(errors) :
              errors[i].text \in {"Raw results directory not found",
                                  "No valid JSON files found"}

\* C28 witness: the newest report does not parse while an older one holds a
\* cluster name; the run has loaded its documents under the default name
C28_Witness ==
    /\ pc = "summary"
    /\ report_files["report-2.json"].kind = "bad"
    /\ report_files["report-1.json"].kind = "ok"
    /\ report_opened = <<"report-2.json">>
    /\ report_name = "Tempo Performance Test"
    /\ Len(ReportWarningsPrinted) = 1

\* sys.argv[2:]
Args == Tail(argv)

\* args[i] is read by the loop as the value of the option before it: that
\* option is --filter or --output-suffix and is not itself such a value
RECURSIVE IsValue(_, _)
IsValue(args, i) ==
    /\ i > 1
    /\ args[i - 1] \in {"--filter", "--output-suffix"}
    /\ ~IsValue(args, i - 1)

\* the values given to the option opt, by index
ValuesOf(args, opt) == {i \in 1..Len(args) : IsValue(args, i) /\ args[i - 1] = opt}

\* the arguments that are no values and do not start with '--', by index
Positionals(args) ==
    {i \in 1..Len(args) : ~IsValue(args, i) /\ ~StartsWithDashes(args[i])}

\* the argument with the greatest index of S, or default when S is empty
LastArg(args, S, default) ==
    IF S = {} THEN default ELSE args[CHOOSE i \in S : \A j \in S : j <= i]

\* the argument loop has ended
Parsed == pc # "start" /\ Len(argv) >= 1

\* C29: the argument loop ends having read each argument exactly once, in
\* order.  The argument after a --filter (--output-suffix) that the loop reads
\* as an option is its value: the last such value is the filter (suffix), and
\* a value is never the timestamp, whatever it looks like.  The timestamp is
\* the last argument that is no value and does not start with '--', or the
\* current time if there is none.  A --filter or --output-suffix in last
\* place and any other '--' flag change none of the three.
C29_ArgumentLoop ==
    Parsed =>
        /\ examined = [i \in 1..Len(Args) |-> i]
        /\ FILE_FILTER = LastArg(Args, ValuesOf(Args, "--filter"), "")
        /\ OUTPUT_SUFFIX = LastArg(Args, ValuesOf(Args, "--output-suffix"), "")
        /\ timestamp = LastArg(Args, Positionals(Args), NowTimestamp)
        /\ (\A i \in 1..Len(Args) :
               \/ (i = Len(Args) /\ Args[i] \in {"--filter", "--output-suffix"})
               \/ Args[i] = "--verbose")
           => (FILE_FILTER = "" /\ OUTPUT_SUFFIX = "" /\ timestamp = NowTimestamp)

\* C29 witness: the values of both options look like an option and like a
\* timestamp, an unknown flag and a trailing option follow; neither value is
\* the timestamp
C29_Witness ==
    /\ Parsed
    /\ Args = <<"--filter", "--output-suffix", "--output-suffix", "20251126">>
    /\ FILE_FILTER = "--output-suffix"
    /\ OUTPUT_SUFFIX = "20251126"
    /\ timestamp = NowTimestamp

\* the five report artifacts: (stem, extension)
ReportArtifacts ==
    {<<"dashboard", "html">>, <<"timeseries-dashboard", "html">>,
     <<"summary", "html">>, <<"per-container-report", "html">>,
     <<"per-container-report", "csv">>}

\* every artifact written so far is a PNG chart in charts/ named with the
\* timestamp, or one of the five report artifacts named with the suffix
ArtifactNames ==
    \A i \in 1..Len(outputs) :
        IF outputs[i].ext = "png"
        THEN /\ outputs[i].dir = "charts"
             /\ outputs[i].tag = timestamp
             /\ <<outputs[i].stem, "html">> \notin ReportArtifacts
        ELSE /\ outputs[i].dir = ""
             /\ outputs[i].tag = OUTPUT_SUFFIX
             /\ <<outputs[i].stem, outputs[i].ext>> \in ReportArtifacts

\* the tables built so far are those of the documents that the files of raw/
\* and the filter give: no table depends on the suffix or the timestamp
TablesFromFilesAndFilter ==
    LET docs == LoadedDocs(raw_files, FILE_FILTER)
    IN  /\ "summary" \in built =>
              \E t \in results_to_dataframe(docs) : df \in {t, AddEfficiency(t)}
        /\ "timeseries" \in built => ts_df = extract_timeseries_data(docs)
        /\ "per_container" \in built => container_df = extract_per_container_data(docs)

\* no step after the argument loop changes the filter, the suffix or the
\* timestamp
OptionsFixed ==
    pc # "start" => UNCHANGED <<FILE_FILTER, OUTPUT_SUFFIX, timestamp>>

\* C30: the output suffix is in the names of the five report artifacts
\* (dashboard, timeseries-dashboard, summary, per-container-report .html and
\* .csv) and of no other file, the timestamp is in the names of the PNG charts
\* only; filter, suffix and timestamp do not change once the argument loop
\* has ended; and the tables are determined by the raw files and the filter.
C30_SuffixAndTimestampInNamesOnly ==
    [](ArtifactNames /\ TablesFromFilesAndFilter) /\ [][OptionsFixed]_vars

\* C30 witness: a run with a timestamp and a suffix has written PNG charts and
\* all five report artifacts
C30_Witness ==
    /\ pc = "done"
    /\ timestamp = "20251126"
    /\ OUTPUT_SUFFIX = "-ingest"
    /\ \A a \in ReportArtifacts :
          \E i \in 1..Len(outputs) :
              /\ <<outputs[i].stem, outputs[i].ext>> = a
              /\ outputs[i].tag = "-ingest"
    /\ \E i \in 1..Len(outputs) : outputs[i].ext = "png" /\ outputs[i].tag = "20251126"

=============================================================================
